---- MODULE Spec2Model ----
(***************************************************************************)
(* Eryx: model of the in-guest Python runtime (runtime.py), the async      *)
(* runtime shim (componentize_py_runtime.py) and of the host-side parts    *)
(* the design document describes around them.                              *)
(***************************************************************************)
EXTENDS Integers, Sequences, FiniteSets, TLC

VARIABLES
    _persistent_globals,  \* runtime.py: module-level dict of user state
    snap,                 \* bytes of the last successful snapshot_state()
    last,                 \* history: the last guest export call and its outcome
    trip,                 \* history: progress of snapshot -> clear -> restore
    run,                  \* host: the execute() call in flight and its deadline
    sec,                  \* host: secrets vault, guest-visible strings, output
    promises,             \* async: the pending invokes issued, by promise id
    hostSlot,             \* async: host-side result slot of each promise
    posted,               \* async: completions posted to the waitable set
    delivered,            \* async: how many posted completions were delivered
    sweeping,             \* async: promise whose guest callback is running
    _eryx_async_import_result,  \* __main__ global the Rust layer stores into
    got,                  \* async: what the guest obtained for each promise
    invoked,              \* async: what the last invoke_async returned
    abi,                  \* async: what _eryx._eryx_invoke_async last returned
    wset,                 \* async: the guest's waitable set
    mcp,                  \* host: the tool-server manager and its servers
    srv,                  \* eryx serve / eryx wrap: the session and its buffers
    call                  \* the last pure-function call: input and output

guestVars == <<_persistent_globals, snap, last, trip>>

asyncVars == <<promises, hostSlot, posted, delivered, sweeping,
               _eryx_async_import_result, got, invoked, abi, wset>>

vars == <<_persistent_globals, snap, last, trip, run, sec, promises, hostSlot,
          posted, delivered, sweeping, _eryx_async_import_result, got,
          invoked, abi, wset, mcp, srv, call>>

(***************************************************************************)
(* Bounds                                                                  *)
(***************************************************************************)
\* Longest guest program (number of top-level statements) handed to execute()
MaxStmts == 2

(***************************************************************************)
(* Dictionaries (Python dict) as functions                                 *)
(***************************************************************************)
EmptyDict == [k \in {} |-> "None"]

\* dict.update(other)
DictUpdate(d, other) ==
    [k \in DOMAIN d \cup DOMAIN other |->
        IF k \in DOMAIN other THEN other[k] ELSE d[k]]

DictSet(d, k, v) == DictUpdate(d, [j \in {k} |-> v])

DictDel(d, k) == [j \in DOMAIN d \ {k} |-> d[j]]

(***************************************************************************)
(* Guest values.  "1" and "2" are small integers, "None" is None,          *)
(* "Module" a module object, "Lambda" an object pickle refuses,            *)
(* "BlobA"/"BlobB" bytes objects sized around half the snapshot ceiling,   *)
(* "Class"/"Func"/"Builtins" the pre-imported helpers and the API.         *)
(***************************************************************************)
MAX_SNAPSHOT_SIZE == 10 * 1024 * 1024

_EXCLUDED_KEYS ==
    {"__builtins__", "invoke", "list_callbacks", "asyncio", "json", "math",
     "re", "defaultdict", "Counter", "datetime", "timedelta", "groupby",
     "chain", "os", "subprocess", "socket", "__import__", "__name__",
     "__doc__", "__package__", "__loader__", "__spec__", "__annotations__",
     "__file__", "__cached__"}

_get_base_globals ==
    [k \in {"__builtins__", "asyncio", "json", "math", "re", "defaultdict",
            "Counter", "datetime", "timedelta", "groupby", "chain", "os",
            "subprocess", "socket", "__import__"} |->
        CASE k = "__builtins__" -> "Builtins"
          [] k \in {"asyncio", "json", "math", "re"} -> "Module"
          [] k \in {"defaultdict", "Counter", "datetime", "timedelta",
                    "groupby", "chain"} -> "Class"
          [] OTHER -> "None"]

\* str.startswith("_") over the names the model uses
StartsWithUnderscore(key) ==
    key \in {"_t", "__builtins__", "__import__", "__name__", "__doc__",
             "__package__", "__loader__", "__spec__", "__annotations__",
             "__file__", "__cached__"}

\* persisted is the module-level _persistent_globals of the instance
_get_exec_globals(persisted, invoke_func, list_callbacks_func) ==
    DictUpdate(
        DictSet(DictSet(_get_base_globals, "invoke", invoke_func),
                "list_callbacks", list_callbacks_func),
        persisted)

_extract_user_globals_NoBaseKeys(exec_globals) ==
    LET kept == {key \in DOMAIN exec_globals :
                    /\ ~StartsWithUnderscore(key)
                    /\ exec_globals[key] # "None"
                    /\ exec_globals[key] # "Module"}
    IN [key \in kept |-> exec_globals[key]]

_extract_user_globals(exec_globals) ==
    LET base_keys == DOMAIN _get_base_globals \cup _EXCLUDED_KEYS
                        \cup {"invoke", "list_callbacks"}
        kept == {key \in DOMAIN exec_globals :
                    /\ key \notin base_keys
                    /\ ~StartsWithUnderscore(key)
                    /\ exec_globals[key] # "None"
                    /\ exec_globals[key] # "Module"}
    IN [key \in kept |-> exec_globals[key]]

(***************************************************************************)
(* Guest programs.  A program is what compile() makes of the code string:  *)
(* it either fails to compile, or is a sequence of top-level statements,   *)
(* run as a coroutine when it holds a top-level await (CO_COROUTINE).      *)
(*   assign  n v : n = v            (STORE_NAME, goes to the locals)       *)
(*   gassign n v : globals()[n] = v (goes to exec_globals)                 *)
(*   del     n   : del n            (DELETE_NAME, on the locals)           *)
(*   raise       : raise <name>(), of class <val>                          *)
(***************************************************************************)
St(op, name, val) == [op |-> op, name |-> name, val |-> val]

\* Statements of the programs that exercise the persistence of names
Stmts ==
    {St("assign", "x", "1"), St("assign", "x", "2"), St("assign", "y", "None"),
     St("assign", "y", "Module"), St("assign", "_t", "1"),
     St("gassign", "y", "1"), St("del", "x", "")}

\* Statements of the programs that exercise the error paths
ErrStmts ==
    {St("assign", "x", "1"), St("assign", "y", "2"), St("del", "x", ""),
     St("raise", "ValueError", "Exception"),
     St("raise", "SystemExit", "BaseException")}

\* Statements of the programs that rebind the names of the execution globals
ExcludedStmts ==
    {St("assign", "x", "1"), St("assign", "os", "1"),
     St("gassign", "invoke", "1"), St("assign", "json", "1"),
     St("gassign", "__import__", "1"), St("del", "os", "")}

\* Statements of the programs that bind values pickle cannot take
PortableStmts ==
    {St("assign", "x", "1"), St("assign", "x", "Deep"),
     St("assign", "y", "2"), St("assign", "y", "Lambda")}

\* Statements of the programs whose text the history keeps
TracedStmts ==
    {St("assign", "x", "1"), St("del", "x", ""),
     St("raise", "ValueError", "Exception"),
     St("raise", "SystemExit", "BaseException")}

\* Statements of the programs that exercise the snapshot codec
SnapStmts ==
    {St("assign", "x", "1"), St("assign", "x", "BlobB"),
     St("assign", "y", "BlobA"), St("assign", "y", "BlobB"),
     St("assign", "y", "Lambda")}

SeqsUpTo(S, n) == UNION {[1..m -> S] : m \in 0..n}

Programs(stmts, modes) ==
    {[compiles |-> FALSE, coroutine |-> FALSE, body |-> <<>>]} \cup
    {[compiles |-> TRUE, coroutine |-> c, body |-> b] :
        c \in modes, b \in SeqsUpTo(stmts, MaxStmts)}

NoExc == [cls |-> "", type |-> "", text |-> ""]

Exc(cls, type, text) == [cls |-> cls, type |-> type, text |-> text]

\* One statement on (globals, locals).  A coroutine body runs as a function
\* made from module-level code: its locals are its globals.
ExecStmt(s, g, l, coroutine) ==
    CASE s.op = "assign" ->
            IF coroutine
            THEN [g |-> DictSet(g, s.name, s.val), l |-> l, exc |-> NoExc]
            ELSE [g |-> g, l |-> DictSet(l, s.name, s.val), exc |-> NoExc]
      [] s.op = "gassign" ->
            [g |-> DictSet(g, s.name, s.val), l |-> l, exc |-> NoExc]
      [] s.op = "del" ->
            IF coroutine
            THEN IF s.name \in DOMAIN g
                 THEN [g |-> DictDel(g, s.name), l |-> l, exc |-> NoExc]
                 ELSE [g |-> g, l |-> l, exc |-> Exc("Exception", "NameError", "not defined")]
            ELSE IF s.name \in DOMAIN l
                 THEN [g |-> g, l |-> DictDel(l, s.name), exc |-> NoExc]
                 ELSE [g |-> g, l |-> l, exc |-> Exc("Exception", "NameError", "not defined")]
      [] OTHER -> [g |-> g, l |-> l, exc |-> Exc(s.val, s.name, "boom")]

RECURSIVE ExecBody(_, _, _, _, _)
ExecBody(body, i, g, l, coroutine) ==
    IF i > Len(body)
    THEN [g |-> g, l |-> l, exc |-> NoExc]
    ELSE LET r == ExecStmt(body[i], g, l, coroutine)
         IN IF r.exc # NoExc THEN r
            ELSE ExecBody(body, i + 1, r.g, r.l, coroutine)

\* compile(code, ...) then fn() / exec(compiled, exec_globals, exec_locals)
RunCode(code, exec_globals, exec_locals) ==
    IF ~code.compiles
    THEN [g |-> exec_globals, l |-> exec_locals,
          exc |-> Exc("Exception", "SyntaxError", "invalid syntax")]
    ELSE ExecBody(code.body, 1, exec_globals, exec_locals, code.coroutine)

\* What the program's top level sees under a name: locals, then globals.
TopLevelView(g, l) == DictUpdate(g, l)

\* Names the program bound and left bound: the last statement on the name
\* is an assignment.
BoundNames(body) ==
    {n \in {body[i].name : i \in 1..Len(body)} :
        \E i \in 1..Len(body) :
            /\ body[i].name = n
            /\ body[i].op \in {"assign", "gassign"}
            /\ \A j \in (i + 1)..Len(body) :
                  body[j].name = n => body[j].op \in {"assign", "gassign"}}

(***************************************************************************)
(* Results of a guest export: a normal return, an Err raised to the host,  *)
(* or another exception escaping the export.                               *)
(***************************************************************************)
Return == [kind |-> "return", type |-> "", text |-> "", tb |-> FALSE]

ErrResult(type, text, tb) ==
    [kind |-> "Err", type |-> type, text |-> text, tb |-> tb]

Escaped(exc) ==
    [kind |-> "raise", type |-> exc.type, text |-> exc.text, tb |-> FALSE]

(***************************************************************************)
(* pickle.  Bytes are records: fmt tells a well-formed pickle stream from   *)
(* anything else, type is the type of the pickled object, items its        *)
(* key/value pairs in stream order.                                        *)
(***************************************************************************)
NoBytes == [fmt |-> "none", type |-> "", items |-> <<>>]

Garbage == [fmt |-> "garbage", type |-> "", items |-> <<>>]

PickledList == [fmt |-> "pickle", type |-> "list", items |-> <<>>]

RECURSIVE DictItems(_)
DictItems(d) ==
    IF DOMAIN d = {} THEN <<>>
    ELSE LET k == CHOOSE j \in DOMAIN d : TRUE
         IN <<<<k, d[k]>>>> \o DictItems(DictDel(d, k))

\* pickle.dumps(obj) of a dict whose values all pickle
PickleDumps(d) == [fmt |-> "pickle", type |-> "dict", items |-> DictItems(d)]

\* pickle.loads(data): the exception it raises, or the object it builds
PickleLoads(data) ==
    IF data.fmt # "pickle"
    THEN [exc |-> Exc("Exception", "UnpicklingError", "invalid load key"),
          type |-> "", value |-> EmptyDict]
    ELSE [exc |-> NoExc, type |-> data.type,
          value |-> [k \in {data.items[i][1] : i \in 1..Len(data.items)} |->
                        LET i == CHOOSE j \in 1..Len(data.items) :
                                    /\ data.items[j][1] = k
                                    /\ \A m \in (j + 1)..Len(data.items) :
                                          data.items[m][1] # k
                        IN data.items[i][2]]]

\* Bytes one pickled value adds to the stream (key and framing included).
PickledSize(v) ==
    CASE v = "BlobA" -> (MAX_SNAPSHOT_SIZE - 5) \div 2
      [] v = "BlobB" -> (MAX_SNAPSHOT_SIZE - 5) \div 2 + 1
      [] OTHER -> 8

RECURSIVE SumSizes(_, _)
SumSizes(items, i) ==
    IF i > Len(items) THEN 0
    ELSE PickledSize(items[i][2]) + SumSizes(items, i + 1)

\* len(data) of a pickle stream: 5 bytes for the empty dict, plus the items
BytesLen(data) == 5 + SumSizes(data.items, 1)

\* pickle.dumps(obj) raising an exception _is_picklable does not catch:
\* "Deep" is a list nested beyond the recursion limit (RecursionError)
PickleRaises(obj) == obj = "Deep"

\* the value _is_picklable returns, when pickle.dumps returns or raises
\* PicklingError, TypeError or AttributeError
_is_picklable(obj) == obj \notin {"Lambda", "Module"}

_filter_picklable(globals_dict) ==
    LET keep == {key \in DOMAIN globals_dict : _is_picklable(globals_dict[key])}
    IN [picklable |-> [key \in keep |-> globals_dict[key]],
        skipped |-> DOMAIN globals_dict \ keep]

(***************************************************************************)
(* The guest exports (class WitWorld).  The session runs them one at a     *)
(* time, so each is one step.                                              *)
(***************************************************************************)
NoTrip == [stage |-> 0, S |-> EmptyDict]

Restrict(d, keys) == [k \in DOMAIN d \cap keys |-> d[k]]

\* A merge that forgets the locals, where synchronous code binds its names
PersistUserGlobalsNoLocals(persisted, exec_globals, exec_locals) ==
    DictUpdate(persisted, _extract_user_globals(exec_globals))

\* A merge that makes the namespace the code left the new state
PersistUserGlobalsReplace(persisted, exec_globals, exec_locals) ==
    DictUpdate(_extract_user_globals(exec_globals),
               _extract_user_globals(exec_locals))

\* execute(), after the code ran: merge the user-defined names of the
\* globals, then of the locals, into the persistent state
PersistUserGlobals(persisted, exec_globals, exec_locals) ==
    DictUpdate(DictUpdate(persisted, _extract_user_globals(exec_globals)),
               _extract_user_globals(exec_locals))

\* execute(): "except Exception as e: ... raise Err(type: message, traceback)"
ExecuteResult(exc) ==
    IF exc = NoExc THEN Return
    ELSE IF exc.cls = "Exception" THEN ErrResult(exc.type, exc.text, TRUE)
    ELSE Escaped(exc)

\* An execute() that merges what the code had bound when it raised
ExecuteOutcomeMergeOnError(persisted, code) ==
    LET exec_globals == _get_exec_globals(persisted, "Func", "Func")
        ran == RunCode(code, exec_globals, EmptyDict)
    IN [globals |-> PersistUserGlobals(persisted, ran.g, ran.l),
        result |-> ExecuteResult(ran.exc),
        exc |-> ran.exc,
        start |-> exec_globals,
        bound |-> EmptyDict]

\* execute(code) in an instance whose module state is persisted: the
\* module state after the call, what the call raised and returned, the
\* namespace it started with and the names it left bound
ExecuteOutcome(persisted, code) ==
    LET exec_globals == _get_exec_globals(persisted, "Func", "Func")
        exec_locals == EmptyDict
        ran == RunCode(code, exec_globals, exec_locals)
    IN [globals |-> IF ran.exc = NoExc
                    THEN PersistUserGlobals(persisted, ran.g, ran.l)
                    ELSE persisted,
        result |-> ExecuteResult(ran.exc),
        exc |-> ran.exc,
        start |-> exec_globals,
        bound |-> IF ran.exc = NoExc
                  THEN Restrict(TopLevelView(ran.g, ran.l),
                                BoundNames(code.body))
                  ELSE EmptyDict]

execute(code) ==
    LET o == ExecuteOutcome(_persistent_globals, code)
    IN /\ _persistent_globals' = o.globals
       /\ last' = [op |-> "execute", result |-> o.result,
                   prev |-> _persistent_globals, exc |-> o.exc,
                   bound |-> o.bound, start |-> o.start, data |-> NoBytes]
       /\ trip' = NoTrip
       /\ UNCHANGED snap

\* A ceiling check that is off by one
SnapshotTooLargeOffByOne(data) == BytesLen(data) >= MAX_SNAPSHOT_SIZE

\* snapshot_state(): "if len(data) > MAX_SNAPSHOT_SIZE: raise Err(...)"
SnapshotTooLarge(data) == BytesLen(data) > MAX_SNAPSHOT_SIZE

\* "except Exception as e: raise Err(Failed to snapshot state: ...)" around
\* _filter_picklable, pickle.dumps and the size check
snapshot_state ==
    LET raised == \E key \in DOMAIN _persistent_globals :
                      PickleRaises(_persistent_globals[key])
        picklable == _filter_picklable(_persistent_globals).picklable
        data == PickleDumps(picklable)
        too_large == SnapshotTooLarge(data)
        failed == raised \/ too_large
    IN /\ snap' = IF failed THEN snap ELSE data
       /\ last' = [op |-> "snapshot",
                   result |-> IF raised
                              THEN ErrResult("RecursionError",
                                             "Failed to snapshot state", FALSE)
                              ELSE IF too_large
                              THEN ErrResult("", "Snapshot too large", FALSE)
                              ELSE Return,
                   prev |-> _persistent_globals,
                   exc |-> IF raised
                           THEN Exc("Exception", "RecursionError",
                                    "maximum recursion depth exceeded")
                           ELSE NoExc,
                   bound |-> EmptyDict, start |-> EmptyDict,
                   data |-> IF failed THEN NoBytes ELSE data]
       /\ trip' = IF failed THEN NoTrip
                  ELSE [stage |-> 1, S |-> _persistent_globals]
       /\ UNCHANGED _persistent_globals

\* A restore that clears the state before it knows the bytes decode
RestoredGlobalsClearFirst(old, loaded) ==
    IF loaded.exc # NoExc \/ loaded.type # "dict"
    THEN EmptyDict
    ELSE DictUpdate(EmptyDict, loaded.value)

\* A restore that clears the state and forgets to load the decoded names
RestoredGlobalsNoUpdate(old, loaded) ==
    IF loaded.exc # NoExc \/ loaded.type # "dict"
    THEN old
    ELSE EmptyDict

\* A restore that updates the state with the decoded names, keeping the rest
RestoredGlobalsMerge(old, loaded) ==
    IF loaded.exc # NoExc \/ loaded.type # "dict"
    THEN old
    ELSE DictUpdate(old, loaded.value)

\* restore_state(): the state after the call, given what pickle.loads gave
RestoredGlobals(old, loaded) ==
    IF loaded.exc # NoExc \/ loaded.type # "dict"
    THEN old
    ELSE DictUpdate(EmptyDict, loaded.value)

RestoreResult(loaded) ==
    IF loaded.exc # NoExc
    THEN ErrResult(loaded.exc.type, "Failed to restore state", FALSE)
    ELSE IF loaded.type # "dict"
    THEN ErrResult("", "Invalid snapshot: expected dict", FALSE)
    ELSE Return

restore_state(data) ==
    LET loaded == PickleLoads(data)
    IN /\ _persistent_globals' = RestoredGlobals(_persistent_globals, loaded)
       /\ last' = [op |-> "restore",
                   result |-> RestoreResult(loaded),
                   prev |-> _persistent_globals,
                   exc |-> loaded.exc,
                   bound |-> EmptyDict, start |-> EmptyDict,
                   data |-> data]
       /\ trip' = IF trip.stage = 2 /\ data = snap
                  THEN [stage |-> 3, S |-> trip.S]
                  ELSE NoTrip
       /\ UNCHANGED snap

\* A clear that leaves the state as it is
ClearedGlobalsKeep(old) == old

\* clear_state(): _persistent_globals.clear()
ClearedGlobals(old) == EmptyDict

clear_state ==
    /\ _persistent_globals' = ClearedGlobals(_persistent_globals)
    /\ last' = [op |-> "clear",
                result |-> Return,
                prev |-> _persistent_globals,
                exc |-> NoExc,
                bound |-> EmptyDict, start |-> EmptyDict,
                data |-> NoBytes]
    /\ trip' = IF trip.stage = 1
               THEN [stage |-> 2, S |-> trip.S]
               ELSE NoTrip
    /\ UNCHANGED snap

\* Bytes a caller may hand to restore_state: the snapshot it holds, bytes
\* that are no pickle stream, and a pickle of something that is no dict
RestoreInputs == ({snap} \ {NoBytes}) \cup {Garbage, PickledList}

(***************************************************************************)
(* Stateless Sandbox (host side, spec section 4.9).  Sandbox.execute       *)
(* instantiates a fresh guest for every call; a fresh instance has just    *)
(* run the module body of runtime.py, so its _persistent_globals is {}.    *)
(***************************************************************************)
FreshInstanceReused(previous) == previous

FreshInstance(previous) == EmptyDict

sandbox_execute(code) ==
    LET out == ExecuteOutcome(FreshInstance(_persistent_globals), code)
    IN /\ _persistent_globals' = out.globals
       /\ last' = [op |-> "sandbox_execute", result |-> out.result,
                   prev |-> _persistent_globals, exc |-> out.exc,
                   bound |-> out.bound, start |-> out.start,
                   data |-> NoBytes]
       /\ trip' = NoTrip
       /\ UNCHANGED snap

(***************************************************************************)
(* Execution timeout (host side, spec sections 4.1, 4.8 and 6; CLI side    *)
(* __main__.py).  The clock counts epoch ticks of the running call.        *)
(***************************************************************************)
MaxTimeout == 2

MaxInflight == 1

MaxGuestSteps == 2

NoRun == [phase |-> "idle", finite |-> TRUE, limit |-> 1, clock |-> 0,
          guest |-> "finishes", left |-> 0, inflight |-> 0,
          result |-> "", exit |-> 0]

\* __main__.py _run_once: 0 after a normal return, 1 after any eryx error
\* eryx/__init__.py: EryxError is the base class of the eryx exceptions
EryxErrors ==
    {"TimeoutError", "ResourceLimitError", "ExecutionError",
     "InitializationError", "EryxError"}

_run_once_NoBaseClass(outcome) ==
    IF outcome \in {"TimeoutError", "ResourceLimitError", "ExecutionError"}
    THEN 1
    ELSE 0

_run_once(outcome) ==
    IF outcome \in EryxErrors
    THEN 1
    ELSE 0

DeadlineReached(r) == r.finite /\ r.clock >= r.limit

CanInterruptWhenQuiet(r) == DeadlineReached(r) /\ r.inflight = 0

\* section 4.8: the timeout interrupts the guest whatever it is waiting for
CanInterrupt(r) == DeadlineReached(r)

StartExecute(finite, limit, guest, steps) ==
    /\ run.phase \in {"idle", "done"}
    /\ run' = [phase |-> "running", finite |-> finite, limit |-> limit,
               clock |-> 0, guest |-> guest,
               left |-> IF guest = "finishes" THEN steps ELSE 0,
               inflight |-> 0, result |-> "", exit |-> 0]

EpochTick ==
    /\ run.phase = "running"
    /\ run.clock < MaxTimeout
    /\ run' = [run EXCEPT !.clock = @ + 1]

\* the guest runs one more piece of its code; `while True: pass' never ends
GuestStep ==
    /\ run.phase = "running"
    /\ run.inflight = 0
    /\ IF run.guest = "loops"
       THEN run' = [run EXCEPT !.left = 1 - @]
       ELSE IF run.left > 1
            THEN run' = [run EXCEPT !.left = @ - 1]
            ELSE run' = [run EXCEPT !.left = 0, !.phase = "done",
                                    !.result = "Ok",
                                    !.exit = _run_once("Ok")]

\* the guest awaits a host callback (refused once the deadline has passed)
GuestInvoke ==
    /\ run.phase = "running"
    /\ ~DeadlineReached(run)
    /\ run.inflight < MaxInflight
    /\ run' = [run EXCEPT !.inflight = @ + 1]

CallbackResolve ==
    /\ run.phase = "running"
    /\ run.inflight > 0
    /\ run' = [run EXCEPT !.inflight = @ - 1]

\* section 4.8: cancel and drop in-flight sub-tasks, interrupt the guest,
\* report the timeout kind; the Python binding raises eryx.TimeoutError
ExecutionTimeout ==
    /\ run.phase = "running"
    /\ CanInterrupt(run)
    /\ run' = [run EXCEPT !.phase = "done", !.inflight = 0,
                          !.result = "TimeoutError",
                          !.exit = _run_once("TimeoutError")]

(***************************************************************************)
(* Secrets (spec sections 3, 4.3, 4.6; CLI side _cli.py make_secrets).     *)
(* A string is a sequence of tokens; a raw secret value, a placeholder and *)
(* [REDACTED] are tokens of their own.                                     *)
(***************************************************************************)
MaxOut == 2

MaxEnv == 2

SecretNames == {"API_KEY", "TOKEN"}

Hosts == {"api.example.com", "evil.test"}

Literals == {"hello"}

\* one -e/--env argument: KEY=VALUE (eq) or KEY (inherited from the host)
EnvSpecs ==
    {[key |-> "API_KEY", eq |-> TRUE, value |-> "sk-abc"],
     [key |-> "TOKEN", eq |-> TRUE, value |-> "ghp-real"],
     [key |-> "TOKEN", eq |-> FALSE, value |-> ""]}

HostEnvirons == {EmptyDict, [k \in {"TOKEN"} |-> "ghp-host"]}

NoSecrets == [k \in {} |-> [value |-> ""]]

RECURSIVE BuildSecrets(_, _, _, _)
BuildSecrets(env, environ, i, secrets) ==
    IF i > Len(env)
    THEN [error |-> FALSE, secrets |-> secrets]
    ELSE LET spec == env[i]
             key == spec.key
         IN IF ~spec.eq /\ key \notin DOMAIN environ
            THEN [error |-> TRUE, secrets |-> NoSecrets]
            ELSE LET value == IF spec.eq THEN spec.value ELSE environ[key]
                 IN BuildSecrets(env, environ, i + 1,
                        [k \in DOMAIN secrets \cup {key} |->
                            IF k = key THEN [value |-> value]
                            ELSE secrets[k]])

\* _cli.py make_secrets (None, returned for no -e argument, binds nothing)
make_secrets(env, environ) ==
    IF env = <<>>
    THEN [error |-> FALSE, secrets |-> NoSecrets]
    ELSE BuildSecrets(env, environ, 1, NoSecrets)

Placeholder(name) ==
    IF name = "API_KEY" THEN "ph-API_KEY" ELSE "ph-TOKEN"

Redacted == "[REDACTED]"

EnvViewRaw(vault, name) == vault[name].value

\* section 4.3: a read of a bound name returns the placeholder
EnvView(vault, name) == Placeholder(name)

\* sections 4.3, 4.6: placeholder -> [REDACTED] unless the caller disabled it
Scrub(vault, scrub, tok) ==
    IF scrub /\ \E n \in DOMAIN vault : tok = Placeholder(n)
    THEN Redacted
    ELSE tok

\* section 4.3: placeholders become raw values only for an allowed host
Reveal(vault, allowed, host, tok) ==
    IF \E n \in DOMAIN vault : tok = Placeholder(n)
    THEN IF host \in allowed
         THEN vault[CHOOSE n \in DOMAIN vault : tok = Placeholder(n)].value
         ELSE ""
    ELSE tok

\* section 4.3: the raw value is never present in a guest-visible buffer
Conceal(vault, tok) ==
    IF \E n \in DOMAIN vault : tok = vault[n].value
    THEN Placeholder(CHOOSE n \in DOMAIN vault : tok = vault[n].value)
    ELSE tok

NoSandbox == [phase |-> "unbuilt", vault |-> NoSecrets, allowed |-> {},
              scrub |-> TRUE, known |-> {}, stdout |-> <<>>,
              stderr |-> <<>>, error |-> <<>>, sent |-> <<>>]

\* eryx.Sandbox(secrets=make_secrets(args), scrub_stdout=..., ...)
BuildSandbox(env, environ, allowed, scrub) ==
    LET made == make_secrets(env, environ)
    IN /\ sec.phase = "unbuilt"
       /\ sec' = IF made.error
                 THEN [NoSandbox EXCEPT !.phase = "argerror"]
                 ELSE [NoSandbox EXCEPT !.phase = "built",
                                        !.vault = made.secrets,
                                        !.allowed = allowed,
                                        !.scrub = scrub,
                                        !.known = Literals]

\* guest: os.environ.get(name)
GuestGetenv(name) ==
    /\ sec.phase = "built"
    /\ name \in DOMAIN sec.vault
    /\ sec' = [sec EXCEPT !.known = @ \cup {EnvView(sec.vault, name)}]

\* guest: print(tok) or print(tok, file=sys.stderr), through the I/O pump
GuestPrint(stream, tok) ==
    /\ sec.phase = "built"
    /\ tok \in sec.known
    /\ Len(sec.stdout) + Len(sec.stderr) < MaxOut
    /\ sec' = [sec EXCEPT ![stream] =
                  Append(@, Scrub(sec.vault, sec.scrub, tok))]

\* guest: raise Exception(tok), surfaced to the caller as an error message
GuestRaise(tok) ==
    /\ sec.phase = "built"
    /\ tok \in sec.known
    /\ sec.error = <<>>
    /\ sec' = [sec EXCEPT !.error = <<Scrub(sec.vault, sec.scrub, tok)>>]

\* guest: a network request carrying tok; the server echoes what it got
GuestRequest(host, tok) ==
    /\ sec.phase = "built"
    /\ tok \in sec.known
    /\ LET wire == Reveal(sec.vault, sec.allowed, host, tok)
       IN sec' = [sec EXCEPT !.sent = <<host, wire>>,
                             !.known = @ \cup {Conceal(sec.vault, wire)}]

(***************************************************************************)
(* Async imports (componentize_py_runtime.py; host side spec sections 4.4  *)
(* and 4.7).  A JSON object is a function from its keys; a JSON value is a *)
(* record of its type and text.                                            *)
(***************************************************************************)
MaxPromises == 2

PromiseIds == 1..MaxPromises

NoPromise == 0

NoSlot == [ok |-> FALSE, text |-> "unresolved", nested |-> FALSE]

\* what a host task ended with; `nested' is whether the envelope carries a
\* JSON-object result as an object or as its JSON text
HostResults == {[ok |-> TRUE, text |-> "{\"n\": 1}", nested |-> FALSE],
                [ok |-> TRUE, text |-> "{\"n\": 2}", nested |-> TRUE],
                [ok |-> FALSE, text |-> "boom", nested |-> FALSE]}

JsonStr(text) == [type |-> "str", text |-> text]

JsonObj(text) == [type |-> "obj", text |-> text]

JsonBool(b) == [type |-> "bool", text |-> IF b THEN "true" ELSE "false"]

\* json.dumps of a value: a str is quoted, anything else is its JSON text
JsonDumps(v) == IF v.type = "str" THEN <<"\"", v.text, "\"">> ELSE <<v.text>>

\* dict.get(key, default)
DictGet(d, key, default) == IF key \in DOMAIN d THEN d[key] ELSE default

\* bool(value) of a JSON value
Truthy(v) ==
    CASE v.type = "bool" -> v.text = "true"
      [] v.type = "str" -> v.text # ""
      [] OTHER -> v.text \notin {"null", "0", "{}", "[]"}

\* section 4.4: the JSON result (or error) written for a resolved promise
HostEnvelope(res) ==
    IF res.ok
    THEN [k \in {"ok", "value"} |->
             IF k = "ok" THEN JsonBool(TRUE)
             ELSE IF res.nested THEN JsonObj(res.text)
                  ELSE JsonStr(res.text)]
    ELSE [k \in {"ok", "error"} |->
             IF k = "ok" THEN JsonBool(FALSE) ELSE JsonStr(res.text)]

NoResult == [k \in {} |-> JsonStr("")]

promise_get_result_ErrorAsValue(stored, result, promise) ==
    IF ~stored
    THEN [kind |-> "RuntimeError",
          text |-> <<"No async import result available">>]
    ELSE LET value == DictGet(result, "value",
                              DictGet(result, "error", JsonStr("")))
         IN [kind |-> "return",
             text |-> IF value.type = "str" THEN <<value.text>>
                      ELSE JsonDumps(value)]

\* componentize_py_runtime.py promise_get_result; `stored' is whether the
\* global _eryx_async_import_result is set, `result' its parsed JSON
promise_get_result(stored, result, promise) ==
    IF ~stored
    THEN [kind |-> "RuntimeError",
          text |-> <<"No async import result available">>]
    ELSE IF Truthy(DictGet(result, "ok", JsonBool(FALSE)))
         THEN LET value == DictGet(result, "value", JsonStr(""))
              IN [kind |-> "return",
                  text |-> IF value.type = "str" THEN <<value.text>>
                           ELSE JsonDumps(value)]
         ELSE LET error == DictGet(result, "error",
                                   JsonStr("Unknown error"))
              IN [kind |-> "RuntimeError", text |-> <<error.text>>]

NoStored == [stored |-> FALSE, json |-> NoResult]

\* the value of an Ok/Err: `payload' is its Python type, str or tuple
NoInvoke == [kind |-> "", payload |-> "", text |-> "",
             waitable |-> NoPromise, promise |-> NoPromise]

\* what _eryx._eryx_invoke_async returns: (result_type, value)
NoAbi == [result_type |-> 0,
          value |-> [payload |-> "", text |-> "", waitable |-> NoPromise,
                     promise |-> NoPromise]]

AbiStr(text) == [payload |-> "str", text |-> text, waitable |-> NoPromise,
                 promise |-> NoPromise]

AbiPair(waitable, promise) ==
    [payload |-> "tuple", text |-> "", waitable |-> waitable,
     promise |-> promise]

\* result codes the host uses for the pending form
PendingCodes == {2, 3}

NoWaitableSet == [state |-> "none", joined |-> {}]

invoke_async_NoOkBranch(result_type, value) ==
    [kind |-> "Err", payload |-> value.payload, text |-> value.text,
     waitable |-> value.waitable, promise |-> value.promise]

\* componentize_py_runtime.py invoke_async; (result_type, value) is what
\* _eryx._eryx_invoke_async returned
invoke_async(result_type, value) ==
    IF result_type = 0
    THEN [kind |-> "Ok", payload |-> value.payload, text |-> value.text,
          waitable |-> value.waitable, promise |-> value.promise]
    ELSE IF result_type = 1
         THEN [kind |-> "Err", payload |-> value.payload,
               text |-> value.text, waitable |-> value.waitable,
               promise |-> value.promise]
         ELSE [kind |-> "Err", payload |-> value.payload,
               text |-> value.text, waitable |-> value.waitable,
               promise |-> value.promise]

\* the host answers at once (result_type 0 or 1): no promise is issued
InvokeImmediate(res) ==
    /\ sweeping = NoPromise
    /\ abi' = [result_type |-> IF res.ok THEN 0 ELSE 1,
               value |-> AbiStr(res.text)]
    /\ invoked' = invoke_async(abi'.result_type, abi'.value)
    /\ UNCHANGED <<promises, hostSlot, posted, delivered, sweeping,
                   _eryx_async_import_result, got, wset>>

\* section 4.4: the dispatcher acquires a fresh (waitable_id, promise_id)
\* and answers with a pending code; the guest runtime joins the waitable
\* to its waitable set (waitable_set_new on first use, then waitable_join)
InvokePending(code) ==
    LET p == Cardinality(promises) + 1
    IN /\ sweeping = NoPromise
       /\ wset.state # "dropped"
       /\ p <= MaxPromises
       /\ promises' = promises \cup {p}
       /\ abi' = [result_type |-> code, value |-> AbiPair(p, p)]
       /\ invoked' = invoke_async(abi'.result_type, abi'.value)
       /\ wset' = [state |-> "open",
                   joined |-> wset.joined \cup {invoked'.waitable}]
       /\ UNCHANGED <<hostSlot, posted, delivered, sweeping,
                      _eryx_async_import_result, got>>

\* section 4.4: the host task ends; its result goes into the promise's slot
\* and the completion is posted to the waitable set
HostResolve(p, res) ==
    /\ p \in promises
    /\ p \notin DOMAIN hostSlot
    /\ hostSlot' = [q \in DOMAIN hostSlot \cup {p} |->
                       IF q = p THEN res ELSE hostSlot[q]]
    /\ posted' = Append(posted, p)
    /\ UNCHANGED <<promises, delivered, sweeping,
                   _eryx_async_import_result, got, invoked, abi, wset>>

\* the host delivers the next completion: the Rust layer stores the result
\* in __main__._eryx_async_import_result and enters the guest callback
export_async_callback ==
    /\ sweeping = NoPromise
    /\ delivered < Len(posted)
    /\ LET p == posted[delivered + 1]
       IN /\ _eryx_async_import_result' =
                 [stored |-> TRUE, json |-> HostEnvelope(hostSlot[p])]
          /\ sweeping' = p
    /\ delivered' = delivered + 1
    /\ UNCHANGED <<promises, hostSlot, posted, got, invoked, abi, wset>>

\* the guest callback resumes the awaiting coroutine, which collects
GuestCollect ==
    /\ sweeping # NoPromise
    /\ got' = [q \in DOMAIN got \cup {sweeping} |->
                  IF q = sweeping
                  THEN promise_get_result(_eryx_async_import_result.stored,
                                          _eryx_async_import_result.json,
                                          sweeping)
                  ELSE got[q]]
    /\ sweeping' = NoPromise
    /\ UNCHANGED <<promises, hostSlot, posted, delivered,
                   _eryx_async_import_result, invoked, abi, wset>>

CanDropAnyTime(w) == w.state = "open" /\ sweeping = NoPromise

\* the guest's polling loop ends once every joined waitable has completed
CanDrop(w) ==
    /\ w.state = "open"
    /\ sweeping = NoPromise
    /\ w.joined \subseteq DOMAIN got

\* componentize_py_runtime.py waitable_set_drop, called by the guest's loop
waitable_set_drop ==
    /\ CanDrop(wset)
    /\ wset' = [wset EXCEPT !.state = "dropped"]
    /\ UNCHANGED <<promises, hostSlot, posted, delivered, sweeping,
                   _eryx_async_import_result, got, invoked, abi>>

NoSlots == [q \in {} |-> NoSlot]

NoGot == [q \in {} |-> [kind |-> "", text |-> <<>>]]

(***************************************************************************)
(* Tool-server manager (host side, spec section 4.12; the Rust MCPManager  *)
(* that mcp.py, __main__.py, serve.py and wrap.py drive).  Each server has *)
(* a state and a child process.                                            *)
(***************************************************************************)
MaxCloses == 2

ServerNames == {"mock", "other", "third"}

NoServers == [n \in {} |-> [state |-> "", child |-> ""]]

NoManager == [closed |-> FALSE, servers |-> NoServers, closes |-> 0,
              before |-> NoServers, after |-> NoServers,
              op |-> "", raised |-> ""]

ReapRunningOnly(server) ==
    IF server.child = "running"
    THEN [state |-> "Closed", child |-> "joined"]
    ELSE [state |-> "Closed", child |-> server.child]

\* section 4.12 close(): send shutdown, drain, reap
Reap(server) == [state |-> "Closed", child |-> "joined"]

\* section 4.12 connect(): fork the child, handshake, tools/list
mcp_connect(name, outcome) ==
    /\ name \notin DOMAIN mcp.servers
    /\ IF mcp.closed
       THEN mcp' = [mcp EXCEPT !.op = "connect",
                               !.raised = "InitializationError"]
       ELSE IF outcome = "ready"
       THEN mcp' = [mcp EXCEPT
                !.servers = [n \in DOMAIN mcp.servers \cup {name} |->
                    IF n = name
                    THEN [state |-> "Ready", child |-> "running"]
                    ELSE mcp.servers[n]],
                !.op = "connect", !.raised = ""]
       ELSE IF outcome = "bad_command"
       THEN mcp' = [mcp EXCEPT !.op = "connect",
                               !.raised = "InitializationError"]
       ELSE mcp' = [mcp EXCEPT
                !.servers = [n \in DOMAIN mcp.servers \cup {name} |->
                    IF n = name
                    THEN [state |-> "Faulted", child |-> "exited"]
                    ELSE mcp.servers[n]],
                !.op = "connect", !.raised = "InitializationError"]

\* connect() under a name the manager already holds: the design document
\* does not say whether the manager refuses the name or takes the new
\* server in place of the old one, so both can happen
mcp_reconnect(name, outcome) ==
    /\ name \in DOMAIN mcp.servers
    /\ IF mcp.closed \/ outcome # "ready"
       THEN mcp' = [mcp EXCEPT !.op = "connect",
                               !.raised = "InitializationError"]
       ELSE mcp' = [mcp EXCEPT
                !.servers[name] = [state |-> "Ready", child |-> "running"],
                !.op = "connect", !.raised = ""]

\* a ready server's child dies
mcp_crash(name) ==
    /\ name \in DOMAIN mcp.servers
    /\ mcp.servers[name].state = "Ready"
    /\ mcp' = [mcp EXCEPT !.servers[name] =
                   [state |-> "Faulted", child |-> "exited"],
                          !.op = "crash", !.raised = ""]

\* section 4.12 call_tool(): only a Ready server accepts it
mcp_call_tool(name) ==
    /\ mcp' = [mcp EXCEPT !.op = "call_tool",
                          !.raised =
                              IF /\ name \in DOMAIN mcp.servers
                                 /\ mcp.servers[name].state = "Ready"
                              THEN ""
                              ELSE "ExecutionError"]

\* section 4.12 close()
mcp_close ==
    /\ mcp.closes < MaxCloses
    /\ LET closed == [n \in DOMAIN mcp.servers |-> Reap(mcp.servers[n])]
       IN mcp' = [closed |-> TRUE,
                  servers |-> closed,
                  closes |-> mcp.closes + 1,
                  before |-> IF mcp.closes = 0 THEN mcp.servers
                             ELSE mcp.before,
                  after |-> IF mcp.closes = 0 THEN closed ELSE mcp.after,
                  op |-> "close",
                  raised |-> ""]

(***************************************************************************)
(* Tool-server discovery (mcp.py).  A JSON value is a string token; a JSON *)
(* object is a function from its keys, wrapped with the kind of value that *)
(* stands where an object is expected.                                     *)
(***************************************************************************)
NoCall == [fn |-> ""]

JsonDict(d) == [kind |-> "dict", d |-> d]

NotADict(kind) == [kind |-> kind, d |-> EmptyDict]

\* bool(value) of a JSON value
PyBool(v) == v \notin {"false", "null", "", "[]", "{}"}

Absent == "absent"

\* the fields a server entry may carry, Absent standing for a missing key
ConfigFields ==
    [type : {Absent, "stdio", "sse", "null"},
     disabled : {Absent, "true", "false"},
     enabled : {Absent, "true", "false", "null"},
     command : {Absent, "npx", "", "null"},
     remote : {Absent, "url", "serverUrl", "httpUrl"},
     args : {Absent, "[\"-y\"]"},
     env : {Absent, "{\"K\": \"v\"}"}]

\* the JSON object of a server entry
ConfigOf(f) ==
    LET plain == {k \in {"type", "disabled", "enabled", "command", "args",
                         "env"} : f[k] # Absent}
        remote == IF f.remote = Absent THEN {} ELSE {f.remote}
    IN JsonDict([k \in plain \cup remote |->
                    IF k \in plain THEN f[k] ELSE "http://host/mcp"])

NoServerConfigs ==
    [n \in {} |-> [command |-> "", args |-> "", env |-> ""]]

IncludedNoEnabledCheck(config) ==
    LET c == config.d
    IN /\ config.kind = "dict"
       /\ ~PyBool(DictGet(c, "disabled", "false"))
       /\ DictGet(c, "type", "stdio") = "stdio"
       /\ PyBool(DictGet(c, "command", "null"))

\* mcp.py _extract_stdio_servers, the loop body's tests: the entry is kept
Included(config) ==
    LET c == config.d
    IN /\ config.kind = "dict"
       /\ ~PyBool(DictGet(c, "disabled", "false"))
       /\ DictGet(c, "enabled", "null") # "false"
       /\ DictGet(c, "type", "stdio") = "stdio"
       /\ ~(/\ ~PyBool(DictGet(c, "command", "null"))
            /\ \/ PyBool(DictGet(c, "url", "null"))
               \/ PyBool(DictGet(c, "serverUrl", "null"))
               \/ PyBool(DictGet(c, "httpUrl", "null")))
       /\ PyBool(DictGet(c, "command", "null"))

\* mcp.py _extract_stdio_servers; data.get raises AttributeError when the
\* parsed file is not an object
_extract_stdio_servers(data, key) ==
    IF data.kind # "dict"
    THEN [raised |-> "AttributeError", servers |-> NoServerConfigs]
    ELSE LET mcp_servers == DictGet(data.d, key, JsonDict(EmptyDict))
         IN IF mcp_servers.kind # "dict"
            THEN [raised |-> "", servers |-> NoServerConfigs]
            ELSE [raised |-> "",
                  servers |->
                      [name \in {n \in DOMAIN mcp_servers.d :
                                    Included(mcp_servers.d[n])} |->
                          LET c == mcp_servers.d[name].d
                          IN [command |-> c["command"],
                              args |-> DictGet(c, "args", "[]"),
                              env |-> DictGet(c, "env", "{}")]]]

\* parsed config files with one entry under mcpServers, or none
ExtractInputs ==
    {JsonDict([k \in {"mcpServers"} |->
         JsonDict([n \in {"srv"} |-> ConfigOf(f)])]) : f \in ConfigFields}
    \cup {JsonDict([k \in {"mcpServers"} |->
              JsonDict([n \in {"srv"} |-> NotADict("str")])]),
          JsonDict([k \in {"mcpServers"} |-> NotADict("list")]),
          JsonDict([k \in {"servers"} |->
              JsonDict([n \in {"srv"} |->
                  ConfigOf([type |-> Absent, disabled |-> Absent,
                            enabled |-> Absent, command |-> "npx",
                            remote |-> Absent, args |-> Absent,
                            env |-> Absent])])])}

extract_call ==
    /\ call.fn = "extract_input"
    /\ call' = [fn |-> "_extract_stdio_servers", data |-> call.data,
                key |-> call.key,
                out |-> _extract_stdio_servers(call.data, call.key)]

MaxFiles == 2

\* a server entry with a command and nothing else
Entry(command) == JsonDict([k \in {"command"} |-> command])

DisabledEntry(command) ==
    JsonDict([k \in {"command", "disabled"} |->
                 IF k = "command" THEN command ELSE "true"])

\* a parsed file: an object with one key holding a mapping of entries
ServersFile(key, entries) == JsonDict([k \in {key} |-> JsonDict(entries)])

\* what reading and parsing a path gives: the error raised, or the value
FileError(fmt, err) == [fmt |-> fmt, error |-> err, value |-> NotADict("none")]

FileValue(fmt, value) == [fmt |-> fmt, error |-> "", value |-> value]

\* config sources: a path's content, the key searched and the format
Sources ==
    {[key |-> "mcpServers", file |-> f] :
        f \in {FileError("json", "OSError"),
               FileError("json", "JSONDecodeError"),
               FileError("json", "UnicodeDecodeError"),
               FileValue("json", NotADict("none")),
               FileValue("json", NotADict("list")),
               FileValue("json", JsonDict(EmptyDict)),
               FileValue("json", ServersFile("mcpServers",
                   [n \in {"a"} |-> Entry("npx")])),
               FileValue("json", ServersFile("mcpServers",
                   [n \in {"a", "b"} |->
                       IF n = "a" THEN Entry("uvx") ELSE Entry("node")])),
               FileValue("json", ServersFile("mcpServers",
                   [n \in {"a"} |-> DisabledEntry("deno")]))}}
    \cup
    {[key |-> "mcp_servers", file |-> f] :
        f \in {FileError("toml", "TOMLDecodeError"),
               FileValue("toml", ServersFile("mcp_servers",
                   [n \in {"b"} |-> Entry("cargo")]))}}

\* mcp.py _read_json: None on OSError, JSONDecodeError, UnicodeDecodeError
_read_json(file) ==
    IF file.error \in {"OSError", "JSONDecodeError", "UnicodeDecodeError"}
    THEN NotADict("none")
    ELSE file.value

\* mcp.py _read_toml: None on OSError, TOMLDecodeError, UnicodeDecodeError
_read_toml(file) ==
    IF file.error \in {"OSError", "TOMLDecodeError", "UnicodeDecodeError"}
    THEN NotADict("none")
    ELSE file.value

MergeFoundKeepFirst(servers, found) == DictUpdate(found, servers)

\* mcp.py discover_servers: servers.update(found)
MergeFound(servers, found) == DictUpdate(servers, found)

ReadSource(source) ==
    IF source.file.fmt = "toml"
    THEN _read_toml(source.file)
    ELSE _read_json(source.file)

RECURSIVE DiscoverFrom(_, _, _)
DiscoverFrom(sources, i, servers) ==
    IF i > Len(sources)
    THEN [raised |-> "", servers |-> servers]
    ELSE LET data == ReadSource(sources[i])
         IN IF data.kind = "none"
            THEN DiscoverFrom(sources, i + 1, servers)
            ELSE LET found == _extract_stdio_servers(data, sources[i].key)
                 IN IF found.raised # ""
                    THEN [raised |-> found.raised,
                          servers |-> NoServerConfigs]
                    ELSE DiscoverFrom(sources, i + 1,
                                      MergeFound(servers, found.servers))

\* mcp.py discover_servers, over the sources built from its argument
discover_servers(sources) == DiscoverFrom(sources, 1, NoServerConfigs)

discover_call ==
    /\ call.fn = "discover_input"
    /\ call' = [fn |-> "discover_servers", sources |-> call.sources,
                out |-> discover_servers(call.sources)]

(***************************************************************************)
(* Environment-value interpolation (mcp.py _expand_env_vars).  A string is *)
(* a sequence of characters.                                               *)
(***************************************************************************)
MaxSegments == 2

\* [A-Za-z_] and [A-Za-z0-9_] over the characters used here
IdStart == {"A", "E", "U", "_"}

IdChars == IdStart \cup {"1"}

\* os.environ: A is set, E is set and empty, every other name is unset
Environ ==
    [name \in {<<"A">>, <<"E">>, <<"_", "1">>} |->
        IF name = <<"A">> THEN <<"v", "$", "A">>
        ELSE IF name = <<"E">> THEN <<>>
        ELSE <<"w">>]

\* os.environ.get(name, "")
EnvironGet(name) == IF name \in DOMAIN Environ THEN Environ[name] ELSE <<>>

\* the end of the longest run of identifier characters starting at i
RECURSIVE IdEnd(_, _)
IdEnd(s, i) ==
    IF i <= Len(s) /\ s[i] \in IdChars THEN IdEnd(s, i + 1) ELSE i - 1

\* the first position at or after i that holds "}", or 0 when there is none
RECURSIVE NextClose(_, _)
NextClose(s, i) ==
    IF i > Len(s) THEN 0
    ELSE IF s[i] = "}" THEN i
    ELSE NextClose(s, i + 1)

OrDefaultNever(value, default) == value

\* os.environ.get(name_with_default, "") or default
OrDefault(value, default) == IF value # <<>> THEN value ELSE default

\* the match of the pattern at position i, where s[i] = "$": its kind,
\* its last position and its replacement (_replace)
MatchAt(s, i) ==
    LET none == [kind |-> "none", end |-> i, text |-> <<>>]
    IN IF i + 1 <= Len(s) /\ s[i + 1] \in IdStart
       THEN LET e == IdEnd(s, i + 1)
            IN [kind |-> "name", end |-> e,
                text |-> EnvironGet(SubSeq(s, i + 1, e))]
       ELSE IF /\ i + 2 <= Len(s)
               /\ s[i + 1] = "{"
               /\ s[i + 2] \in IdStart
       THEN LET e == IdEnd(s, i + 2)
                name == SubSeq(s, i + 2, e)
            IN IF e + 1 <= Len(s) /\ s[e + 1] = "}"
               THEN [kind |-> "brace", end |-> e + 1,
                     text |-> EnvironGet(name)]
               ELSE IF /\ e + 2 <= Len(s)
                       /\ s[e + 1] = ":"
                       /\ s[e + 2] = "-"
                       /\ NextClose(s, e + 3) # 0
               THEN LET c == NextClose(s, e + 3)
                    IN [kind |-> "defname", end |-> c,
                        text |-> OrDefault(EnvironGet(name),
                                           SubSeq(s, e + 3, c - 1))]
               ELSE none
       ELSE none

\* re.sub(pattern, _replace, value) from position i on
RECURSIVE SubFrom(_, _)
SubFrom(s, i) ==
    IF i > Len(s) THEN <<>>
    ELSE IF s[i] = "$" /\ MatchAt(s, i).kind # "none"
    THEN MatchAt(s, i).text \o SubFrom(s, MatchAt(s, i).end + 1)
    ELSE <<s[i]>> \o SubFrom(s, i + 1)

\* mcp.py _expand_env_vars
_expand_env_vars(value) == SubFrom(value, 1)

\* pieces of a value: the text as written and what the piece is
Segments ==
    {[text |-> <<"/">>, form |-> "text"],
     [text |-> <<"}", ":", "-">>, form |-> "text"],
     [text |-> <<"$", "/">>, form |-> "text"],
     [text |-> <<"$", "1">>, form |-> "text"],
     [text |-> <<"$", "{", "A", "/">>, form |-> "text"],
     [text |-> <<"$", "{", "}">>, form |-> "text"],
     [text |-> <<"$", "A">>, form |-> "var"],
     [text |-> <<"$", "U">>, form |-> "var"],
     [text |-> <<"$", "_", "1">>, form |-> "var"],
     [text |-> <<"$", "{", "A", "}">>, form |-> "brace"],
     [text |-> <<"$", "{", "E", "}">>, form |-> "brace"],
     [text |-> <<"$", "{", "U", "}">>, form |-> "brace"],
     [text |-> <<"$", "{", "A", ":", "-", "d", "}">>, form |-> "default"],
     [text |-> <<"$", "{", "E", ":", "-", "d", "}">>, form |-> "default"],
     [text |-> <<"$", "{", "U", ":", "-", "d", "}">>, form |-> "default"],
     [text |-> <<"$", "{", "U", ":", "-", "}">>, form |-> "default"],
     [text |-> <<"$", "{", "U", ":", "-", "$", "A", "}">>,
      form |-> "default"]}

RECURSIVE Render(_, _)
Render(segs, i) ==
    IF i > Len(segs) THEN <<>> ELSE segs[i].text \o Render(segs, i + 1)

expand_call ==
    /\ call.fn = "expand_input"
    /\ call' = [fn |-> "_expand_env_vars", segs |-> call.segs,
                out |-> _expand_env_vars(Render(call.segs, 1))]

(***************************************************************************)
(* Volume specs of the command line: parse_volume in _cli.py (eryx wrap),  *)
(* _parse_volume in __main__.py (eryx) and in serve.py (eryx serve).       *)
(***************************************************************************)
\* str.isalpha() of one character
IsAlpha(c) == c \in {"C", "d", "m", "r", "o", "w", "x"}

\* str.split(":") from position i on, `field' being the part read so far
RECURSIVE SplitFrom(_, _, _)
SplitFrom(s, i, field) ==
    IF i > Len(s) THEN <<field>>
    ELSE IF s[i] = ":" THEN <<field>> \o SplitFrom(s, i + 1, <<>>)
    ELSE SplitFrom(s, i + 1, Append(field, s[i]))

Split(s) == SplitFrom(s, 1, <<>>)

ArgumentTypeError ==
    [raised |-> "ArgumentTypeError", src |-> <<>>, dst |-> <<>>,
     ro |-> FALSE]

Mount(src, dst, ro) == [raised |-> "", src |-> src, dst |-> dst, ro |-> ro]

\* the part shared by the three parsers: two parts, or three with a mode
MountOfParts(parts) ==
    IF Len(parts) = 2
    THEN Mount(parts[1], parts[2], FALSE)
    ELSE IF Len(parts) = 3 /\ parts[3] \in {<<"r", "o">>, <<"r", "w">>}
    THEN Mount(parts[1], parts[2], parts[3] = <<"r", "o">>)
    ELSE ArgumentTypeError

\* _cli.py parse_volume: a one-letter first part is rejoined with the next
parse_volume(spec) ==
    LET parts == Split(spec)
    IN IF Len(parts) >= 2 /\ Len(parts[1]) = 1 /\ IsAlpha(parts[1][1])
       THEN MountOfParts(<<parts[1] \o <<":">> \o parts[2]>>
                         \o SubSeq(parts, 3, Len(parts)))
       ELSE MountOfParts(parts)

\* __main__.py _parse_volume
_parse_volume(spec) == MountOfParts(Split(spec))

\* serve.py _parse_volume
serve_parse_volume(spec) == MountOfParts(Split(spec))

\* the parser behind -v/--volume of each command
VolumeParser(command, spec) ==
    CASE command = "eryx" -> _parse_volume(spec)
      [] command = "eryx serve" -> serve_parse_volume(spec)
      [] command = "eryx wrap" -> parse_volume(spec)

Commands == {"eryx", "eryx serve", "eryx wrap"}

\* the parts a volume spec is written from; a tail is what follows DST
VolumeSrcs ==
    {<<"/", "d">>, <<"d">>, <<"d", "x">>, <<"7">>,
     <<"C", ":", "\\", "d">>}

VolumeDsts == {<<"/", "m">>, <<"r", "o">>}

VolumeTails ==
    {<<>>, <<":", "r", "o">>, <<":", "r", "w">>, <<":", "r", "x">>,
     <<":", "r", "o", ":", "x">>, <<":">>}

VolumeInputs ==
    {[src |-> src, dst |-> dst, tail |-> tail,
      spec |-> src \o <<":">> \o dst \o tail] :
        src \in VolumeSrcs, dst \in VolumeDsts, tail \in VolumeTails}
    \cup {[src |-> src, dst |-> <<>>, tail |-> <<"missing">>,
           spec |-> src] : src \in VolumeSrcs}

volume_call(command) ==
    /\ call.fn = "volume_input"
    /\ call' = [fn |-> "parse_volume", command |-> command,
                input |-> call.input,
                out |-> VolumeParser(command, call.input.spec)]

(***************************************************************************)
(* mcp.py connect_servers: discovery, then one manager.connect per server. *)
(* The call is followed in `call': the servers discovered, those still to  *)
(* connect, and the names whose connect returned or raised.                *)
(***************************************************************************)
\* a server entry whose env is not an object
NullEnvEntry(command) ==
    JsonDict([k \in {"command", "env"} |->
                 IF k = "command" THEN command ELSE "null"])

\* config sources of connect_servers: the discovery sources and one file
\* whose entry has a null env
ConnectSources ==
    Sources \cup
    {[key |-> "mcpServers",
      file |-> FileValue("json", ServersFile("mcpServers",
                   [n \in {"c"} |-> NullEnvEntry("bun")]))]}

\* what manager.connect does for a command: the child answers the
\* handshake, cannot be spawned, or exits during the handshake
ConnectOutcomes == {"ready", "bad_command", "handshake_failed"}

\* except Exception: every error manager.connect raises is caught
Caught(exc) == exc \in {"InitializationError"}

ConnectReturn(c, result) ==
    [c EXCEPT !.phase = "returned", !.result = result]

ConnectRaise(c, exc, by) ==
    [c EXCEPT !.phase = "raised", !.raised = exc, !.by = by]

\* servers = discover_servers(config_paths); if not servers: return None;
\* manager = _RustMCPManager(); connected = 0
connect_servers ==
    /\ call.fn = "connect_input"
    /\ LET found == discover_servers(call.sources)
           c == [fn |-> "connect_servers", phase |-> "loop",
                 servers |-> found.servers, todo |-> DOMAIN found.servers,
                 connected |-> 0, ok |-> {}, failed |-> {},
                 result |-> "", raised |-> "", by |-> ""]
       IN call' = IF found.raised # ""
                  THEN ConnectRaise(c, found.raised, "discover_servers")
                  ELSE IF DOMAIN found.servers = {}
                  THEN ConnectReturn(c, "None")
                  ELSE c
    /\ mcp' = NoManager
    /\ UNCHANGED <<guestVars, run, sec, asyncVars, srv>>

\* one turn of the loop over servers.items(), and the return after the last
connect_next(name, outcome) ==
    /\ call.fn = "connect_servers"
    /\ call.phase = "loop"
    /\ name \in call.todo
    /\ IF call.servers[name].env \notin {"{}", "{\"K\": \"v\"}"}
       THEN /\ call' = ConnectRaise(call, "AttributeError", "env")
            /\ mcp' = mcp
       ELSE /\ mcp_connect(name, outcome)
            /\ LET exc == mcp'.raised
                   c == [call EXCEPT
                            !.todo = @ \ {name},
                            !.connected = IF exc = "" THEN @ + 1 ELSE @,
                            !.ok = IF exc = "" THEN @ \cup {name} ELSE @,
                            !.failed = IF exc = "" THEN @ ELSE @ \cup {name}]
               IN call' = IF exc # "" /\ ~Caught(exc)
                          THEN ConnectRaise(c, exc, "connect")
                          ELSE IF c.todo # {} THEN c
                          ELSE IF c.connected = 0
                          THEN ConnectReturn(c, "None")
                          ELSE ConnectReturn(c, "manager")
    /\ UNCHANGED <<guestVars, run, sec, asyncVars, srv>>

(***************************************************************************)
(* The code-execution tool of `eryx serve' (run_python) and of `eryx wrap' *)
(* (execute_python).  A text is a sequence of pieces; a chunk is the text  *)
(* one on_stdout / on_stderr call delivers.  Session is host code: the     *)
(* call ends normally or raises one of the error kinds of spec section 7.  *)
(***************************************************************************)
MaxChunks == 2

\* the values of --timeout and of timeout_ms, None included
TimeoutValues == {"None", "100", "500"}

StdoutChunks == {<<"a", "\n">>, <<"(no output)">>}

StderrChunks == {<<"w", "\n">>}

\* how session.execute(code) ends, with str(exc) of what it raises
ExecuteOutcomes ==
    {[raises |-> "", message |-> <<>>],
     [raises |-> "ExecutionError", message |-> <<"ZeroDivisionError">>],
     [raises |-> "TimeoutError", message |-> <<"timed out">>],
     [raises |-> "ResourceLimitError", message |-> <<"limit">>],
     [raises |-> "InitializationError", message |-> <<"init">>]}

NoToolCall ==
    [tool |-> "", timeout_ms |-> "None", old_timeout |-> "None",
     ran_with |-> "None", left |-> FALSE,
     emitted_out |-> <<>>, emitted_err |-> <<>>,
     raises |-> "", message |-> <<>>, returned |-> <<>>, raised |-> ""]

NoServer ==
    [server |-> "", session |-> [execution_timeout_ms |-> "None"],
     stdout_chunks |-> <<>>, stderr_chunks |-> <<>>, last |-> NoToolCall]

\* "".join(chunks)
RECURSIVE JoinChunks(_)
JoinChunks(chunks) ==
    IF chunks = <<>> THEN <<>>
    ELSE Head(chunks) \o JoinChunks(Tail(chunks))

\* "\n".join(parts)
RECURSIVE JoinLines(_)
JoinLines(parts) ==
    IF parts = <<>> THEN <<>>
    ELSE IF Len(parts) = 1 THEN parts[1]
    ELSE parts[1] \o <<"\n">> \o JoinLines(Tail(parts))

\* parts = []; if stdout: ...; if stderr: parts.append(f"[stderr]\n{stderr}")
OutputParts(stdout, stderr) ==
    (IF stdout # <<>> THEN <<stdout>> ELSE <<>>)
    \o (IF stderr # <<>> THEN <<<<"[stderr]", "\n">> \o stderr>> ELSE <<>>)

\* the try branch: the text returned after session.execute returned
SuccessText(stdout, stderr) ==
    LET parts == OutputParts(stdout, stderr)
    IN IF parts # <<>> THEN JoinLines(parts) ELSE <<"(no output)">>

\* the except branch: the text returned for exc
ErrorText(stdout, stderr, message) ==
    JoinLines(Append(OutputParts(stdout, stderr), message))

CaughtByToolNever(raises) == FALSE

\* except (eryx.ExecutionError, eryx.TimeoutError, eryx.ResourceLimitError)
CaughtByTool(raises) ==
    raises \in {"ExecutionError", "TimeoutError", "ResourceLimitError"}

ClearKeeps(chunks) == chunks

\* stdout_chunks.clear() / stderr_chunks.clear()
Clear_(chunks) == <<>>

RestoredTimeoutKeeps(timeout_ms, old_timeout, current) == current

\* finally: if timeout_ms is not None: session.execution_timeout_ms = old
RestoredTimeout(timeout_ms, old_timeout, current) ==
    IF timeout_ms # "None" THEN old_timeout ELSE current

\* serve.py serve / wrap.py wrap: the session is built with --timeout and
\* the two chunk buffers
StartServer(server, timeout) ==
    /\ srv.server = ""
    /\ srv' = [NoServer EXCEPT !.server = server,
                               !.session.execution_timeout_ms = timeout]

\* the body shared by run_python and execute_python
PythonTool(tool, timeout_ms, out, err, outcome) ==
    LET old_timeout == srv.session.execution_timeout_ms
        during == IF timeout_ms # "None" THEN timeout_ms ELSE old_timeout
        stdout_chunks == Clear_(srv.stdout_chunks) \o out
        stderr_chunks == Clear_(srv.stderr_chunks) \o err
        stdout == JoinChunks(stdout_chunks)
        stderr == JoinChunks(stderr_chunks)
    IN /\ outcome.raises = "TimeoutError" => during # "None"
       /\ srv' = [srv EXCEPT
             !.session.execution_timeout_ms =
                 RestoredTimeout(timeout_ms, old_timeout, during),
             !.stdout_chunks = stdout_chunks,
             !.stderr_chunks = stderr_chunks,
             !.last =
                 [tool |-> tool, timeout_ms |-> timeout_ms,
                  old_timeout |-> old_timeout, ran_with |-> during,
                  left |-> srv.stdout_chunks # <<>> /\ srv.stderr_chunks # <<>>,
                  emitted_out |-> JoinChunks(out),
                  emitted_err |-> JoinChunks(err),
                  raises |-> outcome.raises, message |-> outcome.message,
                  returned |->
                      IF outcome.raises = ""
                      THEN SuccessText(stdout, stderr)
                      ELSE IF CaughtByTool(outcome.raises)
                      THEN ErrorText(stdout, stderr, outcome.message)
                      ELSE <<>>,
                  raised |->
                      IF outcome.raises # "" /\ ~CaughtByTool(outcome.raises)
                      THEN outcome.raises ELSE ""]]

\* serve.py run_python
run_python(timeout_ms, out, err, outcome) ==
    /\ srv.server = "eryx serve"
    /\ PythonTool("run_python", timeout_ms, out, err, outcome)

\* wrap.py execute_python
execute_python(timeout_ms, out, err, outcome) ==
    /\ srv.server = "eryx wrap"
    /\ PythonTool("execute_python", timeout_ms, out, err, outcome)

(***************************************************************************)
(* __main__.py main: the command line of `eryx'.  argv is its first word   *)
(* and what follows it; the script file, stdin and sandbox.execute are     *)
(* given by how they answer.                                               *)
(***************************************************************************)
MainInputs ==
    [first : {"serve", "wrap", "-c", "script.py", "-", ""},
     rest : {<<>>, <<"--mcp">>, <<"--server-name", "fs">>},
     file : {"", "FileNotFoundError", "PermissionError",
             "UnicodeDecodeError"},
     stdin : {"tty", "code", "blank"},
     outcome : {"Ok", "RuntimeError"} \cup EryxErrors]

MainResult(to, argv, exit, raised, stderr, closed) ==
    [to |-> to, argv |-> argv, exit |-> exit, raised |-> raised,
     stderr |-> stderr, closed |-> closed]

\* _run_once as main calls it: the exit status, or the exception that is
\* none of the eryx errors; the finally block closes the manager
RunOnce(outcome, manager) ==
    IF outcome \notin {"Ok"} \cup EryxErrors
    THEN MainResult("_run_once", <<>>, 0, outcome, "", manager)
    ELSE MainResult("_run_once", <<>>, _run_once(outcome), "",
                    IF outcome = "Ok" THEN "" ELSE outcome, manager)

\* with open(args.script) as f: code = f.read()
ReadScript(file, outcome, manager) ==
    IF file = "FileNotFoundError"
    THEN MainResult("", <<>>, 1, "", "No such file", manager)
    ELSE IF file \in {"PermissionError", "IsADirectoryError"}
    THEN MainResult("", <<>>, 1, "", file, manager)
    ELSE IF file # ""
    THEN MainResult("", <<>>, 0, file, "", manager)
    ELSE RunOnce(outcome, manager)

main(in) ==
    LET manager == in.rest = <<"--mcp">>
    IN IF in.first = "serve"
       THEN MainResult("serve", in.rest, 0, "", "", FALSE)
       ELSE IF in.rest # <<>> /\ in.rest[1] \notin {"--mcp"}
       THEN MainResult("parser.error", <<>>, 2, "SystemExit",
                       "unrecognized arguments", FALSE)
       ELSE IF in.first = "-c"
       THEN RunOnce(in.outcome, manager)
       ELSE IF in.first = "-"
       THEN RunOnce(in.outcome, manager)
       ELSE IF in.first # ""
       THEN ReadScript(in.file, in.outcome, manager)
       ELSE IF in.stdin = "tty"
       THEN MainResult("_repl", <<>>, 0, "", "", manager)
       ELSE IF in.stdin = "code"
       THEN RunOnce(in.outcome, manager)
       ELSE MainResult("print_help", <<>>, 0, "", "", manager)

main_call ==
    /\ call.fn = "main_input"
    /\ call' = [fn |-> "main", input |-> call.input,
                out |-> main(call.input)]

(***************************************************************************)
(* runtime.py WitWorld.execute: the string returned for what the guest     *)
(* printed.  A text is a sequence of characters.                           *)
(***************************************************************************)
MaxPrints == 3

\* the arguments of the guest's print() calls
PrintTexts == {<<>>, <<"a">>, <<"a", "\n">>, <<"a", "\n", "b">>}

\* sys.stdout (a StringIO) after the print() calls: each writes its text
\* and a newline
RECURSIVE Printed(_)
Printed(prints) ==
    IF prints = <<>> THEN <<>>
    ELSE Head(prints) \o <<"\n">> \o Printed(Tail(prints))

\* str.rstrip("\n")
RECURSIVE RStripNewlines(_)
RStripNewlines(s) ==
    IF s # <<>> /\ s[Len(s)] = "\n"
    THEN RStripNewlines(SubSeq(s, 1, Len(s) - 1))
    ELSE s

\* return output.rstrip("\n") if output else ""
ReturnedStdout(output) ==
    IF output # <<>> THEN RStripNewlines(output) ELSE <<>>

stdout_call ==
    /\ call.fn = "stdout_input"
    /\ call' = [fn |-> "execute", prints |-> call.prints,
                output |-> Printed(call.prints),
                out |-> ReturnedStdout(Printed(call.prints))]

(***************************************************************************)
(* wrap.py wrap and _connect_servers: the inline command, the --config     *)
(* files, then the discovered files; the meta-server starts when at least  *)
(* one connect returned.                                                   *)
(***************************************************************************)
\* the config files given to eryx wrap
WrapSources ==
    {s \in ConnectSources :
        /\ s.file.error = ""
        /\ s.file.fmt = "json"
        /\ \/ s.file.value.kind = "list"
           \/ /\ s.file.value.kind = "dict"
              /\ "mcpServers" \in DOMAIN s.file.value.d
              /\ \A n \in DOMAIN s.file.value.d["mcpServers"].d :
                    "disabled" \notin
                        DOMAIN s.file.value.d["mcpServers"].d[n].d}

WrapExit(c, exit) == [c EXCEPT !.phase = "returned", !.exit = exit]

\* the loops are over: connected == 0 raises SystemExit(1), which wrap
\* turns into exit status 1; otherwise the meta-server is built and run
WrapFinish(c) ==
    IF c.connected = 0
    THEN WrapExit(c, 1)
    ELSE [c EXCEPT !.phase = "returned", !.exit = 0, !.started = TRUE]

\* 3. IDE discovery (--mcp / --mcp-config)
WrapDiscovery(c) ==
    IF c.input.mcp_config = <<>>
    THEN WrapFinish(c)
    ELSE LET found == discover_servers(c.input.mcp_config)
         IN IF found.raised # ""
            THEN ConnectRaise(c, found.raised, "discover_servers")
            ELSE IF DOMAIN found.servers = {}
            THEN WrapFinish(c)
            ELSE [c EXCEPT !.phase = "discovery",
                           !.servers = found.servers,
                           !.todo = DOMAIN found.servers]

\* 2. Config files (--config)
WrapConfig(c) ==
    IF c.input.config = <<>>
    THEN WrapDiscovery(c)
    ELSE LET found == discover_servers(c.input.config)
         IN IF found.raised # ""
            THEN ConnectRaise(c, found.raised, "discover_servers")
            ELSE IF DOMAIN found.servers = {}
            THEN WrapDiscovery(c)
            ELSE [c EXCEPT !.phase = "config",
                           !.servers = found.servers,
                           !.todo = DOMAIN found.servers]

\* the record of a connect that returned (exc = "") or raised
Connected(c, name, exc) ==
    [c EXCEPT !.todo = @ \ {name},
              !.connected = IF exc = "" THEN @ + 1 ELSE @,
              !.ok = IF exc = "" THEN @ \cup {name} ELSE @,
              !.twice = IF exc = "" /\ name \in c.ok THEN @ \cup {name}
                        ELSE @,
              !.failed = IF exc = "" THEN @ ELSE @ \cup {name}]

\* wrap up to the end of `1. Inline command from -- separator'
wrap(outcome) ==
    /\ call.fn = "wrap_input"
    /\ LET c == [fn |-> "wrap", phase |-> "inline", input |-> call.input,
                 servers |-> NoServerConfigs, todo |-> {},
                 connected |-> 0, ok |-> {}, failed |-> {},
                 again |-> {}, twice |-> {},
                 exit |-> 0, started |-> FALSE, raised |-> "", by |-> ""]
       IN IF ~call.input.fastmcp
          THEN /\ call' = WrapExit(c, 1)
               /\ mcp' = NoManager
          ELSE IF call.input.inline = ""
          THEN /\ call' = WrapConfig(c)
               /\ mcp' = NoManager
          ELSE /\ mcp_connect(call.input.inline, outcome)
               /\ call' = WrapConfig(
                              Connected(c, call.input.inline, mcp'.raised))
    /\ UNCHANGED <<guestVars, run, sec, asyncVars, srv>>

\* one turn of the loop over the --config servers or the discovered ones
wrap_next(name, outcome) ==
    /\ call.fn = "wrap"
    /\ call.phase \in {"config", "discovery"}
    /\ name \in call.todo
    /\ LET after(c) == IF c.todo # {} THEN c
                       ELSE IF c.phase = "config" THEN WrapDiscovery(c)
                       ELSE WrapFinish(c)
       IN IF call.phase = "discovery" /\ name \in DOMAIN mcp.servers
          THEN /\ call' = after([call EXCEPT !.todo = @ \ {name}])
               /\ mcp' = mcp
          ELSE IF call.servers[name].env \notin {"{}", "{\"K\": \"v\"}"}
          THEN /\ call' = ConnectRaise(call, "AttributeError", "env")
               /\ mcp' = mcp
          ELSE IF name \in DOMAIN mcp.servers
          THEN /\ mcp_reconnect(name, outcome)
               /\ call' = after(Connected(
                              [call EXCEPT !.again =
                                  IF mcp.servers[name].state = "Ready"
                                  THEN @ \cup {name} ELSE @],
                              name, mcp'.raised))
          ELSE /\ mcp_connect(name, outcome)
               /\ call' = after(Connected(call, name, mcp'.raised))
    /\ UNCHANGED <<guestVars, run, sec, asyncVars, srv>>

(***************************************************************************)
(* runtime.py WitWorld.execute.invoke: the trace events around one guest   *)
(* call of a host callback.  The await of wit_world.invoke suspends the    *)
(* coroutine, so several calls can be awaiting at once.                    *)
(***************************************************************************)
MaxInvokes == 2

CallbackNames == {"get_time", "query"}

\* how the await of wit_world.invoke ends: with the result JSON, with the
\* RuntimeError promise_get_result raises for a stored error, with the Err
\* of an error that completed immediately, or with the CancelledError
\* asyncio throws into a cancelled task
AwaitOutcomes == {"json", "RuntimeError", "Err", "CancelledError"}

\* the outcomes "except Exception" catches: Err derives from BaseException
\* (componentize_py_types.py), and so does asyncio.CancelledError
ExceptionSubclasses == {"RuntimeError"}

\* str(e)
ErrorMessage(outcome) == "message of " \o outcome

NoErrorField == "absent"

TraceEvent(type, name, error) ==
    [type |-> type, name |-> name, error |-> error]

\* lines 239-247: report callback_start, then await wit_world.invoke
invoke(name) ==
    /\ call.fn = "invoke"
    /\ Len(call.calls) < MaxInvokes
    /\ call' = [call EXCEPT
          !.calls = Append(@, [name |-> name, ended |-> "awaiting"]),
          !.trace = Append(@, TraceEvent("callback_start", name,
                                         NoErrorField))]

\* lines 247-267: the await ends; json.loads, callback_end and return, or
\* the except Exception handler and re-raise
invoke_resume(i, outcome) ==
    /\ call.fn = "invoke"
    /\ i \in 1..Len(call.calls)
    /\ call.calls[i].ended = "awaiting"
    /\ call' = [call EXCEPT
          !.calls[i].ended = outcome,
          !.trace =
              IF outcome = "json"
              THEN Append(@, TraceEvent("callback_end", call.calls[i].name,
                                        NoErrorField))
              ELSE IF outcome \in ExceptionSubclasses
              THEN Append(@, TraceEvent("callback_end", call.calls[i].name,
                                        ErrorMessage(outcome)))
              ELSE @]

(***************************************************************************)
(* runtime.py WitWorld.execute: sys.stdout, sys.stderr and sys.settrace    *)
(* around the guest code.  A stream is named by a number: 0 is the stream  *)
(* the guest started with, k the StringIO the k-th execute() created.      *)
(***************************************************************************)
MaxExecutes == 3

\* lines 389-390 on a return, lines 396-397 in "except Exception": the
\* stream that is installed when execute() is left
StreamAfter(exc, old, captured) ==
    IF exc = NoExc \/ exc.cls = "Exception" THEN old ELSE captured

\* sys.settrace(trace_func) at line 364 is undone by the finally at 377;
\* the handler at 398 disables tracing as well
TracingAfter(code, exc) == FALSE

execute_streams(code) ==
    LET exc == ExecuteOutcome(_persistent_globals, code).exc
    IN /\ call.fn = "streams"
       /\ call.n < MaxExecutes
       /\ execute(code)
       /\ call' = [fn |-> "streams", n |-> call.n + 1,
                   old_stdout |-> call.stdout, old_stderr |-> call.stderr,
                   stdout |-> StreamAfter(exc, call.stdout, call.n + 1),
                   stderr |-> StreamAfter(exc, call.stderr, call.n + 1),
                   tracing |-> TracingAfter(code, exc)]

(***************************************************************************)
(* The tool-server manager over the run of a command: main (__main__.py),  *)
(* serve (serve.py) and wrap (wrap.py), from connecting the manager to     *)
(* leaving the command.                                                    *)
(***************************************************************************)
CommandNames == {"eryx", "serve", "wrap"}

\* the manager as connect_servers / _connect_servers hands it over, with
\* the servers whose connect returned
ManagerOf(names) ==
    [NoManager EXCEPT !.servers =
        [n \in names |-> [state |-> "Ready", child |-> "running"]]]

CommandExit(c, how) ==
    [c EXCEPT !.phase = "exit", !.exit = how, !.at = c.phase]

\* main 303, serve 127-133, wrap 190-193: the manager is connected before
\* any try block; an exception of the connecting code leaves the command
command_connect(names, raised) ==
    /\ call.fn = "command"
    /\ call.phase = "connect"
    /\ mcp' = ManagerOf(names)
    /\ call' = IF raised
               THEN CommandExit(call, "raise")
               ELSE IF call.cmd = "wrap" /\ names = {}
               THEN CommandExit(call, "return")
               ELSE [call EXCEPT !.phase = "build"]

\* serve 135-150 and wrap 196-213 build the session before their try
\* block; main builds the sandbox or session inside its try block
\* (_run_once, _repl), whose finally closes the manager
command_build(outcome) ==
    /\ call.fn = "command"
    /\ call.phase = "build"
    /\ IF outcome = "ok"
       THEN /\ call' = [call EXCEPT !.phase =
                           IF call.cmd = "eryx" THEN "run" ELSE "describe"]
            /\ UNCHANGED mcp
       ELSE /\ call' = CommandExit(call, "raise")
            /\ IF call.cmd = "eryx" /\ DOMAIN mcp.servers # {}
               THEN mcp_close
               ELSE UNCHANGED mcp

\* serve 153-154 (_build_tool_description) and wrap 216-219
\* (mcp_manager.list_tools()), before the try block
command_describe(outcome) ==
    /\ call.fn = "command"
    /\ call.phase = "describe"
    /\ call' = IF outcome = "ok"
               THEN [call EXCEPT !.phase = "run"]
               ELSE CommandExit(call, "raise")
    /\ UNCHANGED mcp

\* try: server.run(...) / _run_once(...) finally: mcp_manager.close()
command_run(outcome) ==
    /\ call.fn = "command"
    /\ call.phase = "run"
    /\ call' = CommandExit(call, IF outcome = "ok" THEN "return" ELSE "raise")
    /\ IF DOMAIN mcp.servers # {} THEN mcp_close ELSE UNCHANGED mcp

(***************************************************************************)
(* tests/mock_mcp_server.py: the tool server of the tests.  A line of      *)
(* stdin is blank, no JSON, a JSON value that is no object, or a JSON      *)
(* object with an id ("" when the key is missing), a method and, for       *)
(* tools/call, params.                                                     *)
(***************************************************************************)
MaxLines == 2

BlankLine == [kind |-> "blank", id |-> "", method |-> "", params |-> ""]

NotJsonLine == [kind |-> "not_json", id |-> "", method |-> "", params |-> ""]

JsonListLine == [kind |-> "list", id |-> "", method |-> "", params |-> ""]

\* params of a tools/call: echo with a message, add with two numbers, add
\* with a string and a number, a tool the server does not have, null
CallParams == {"echo", "add", "add_str_int", "other_tool", "null"}

RequestLines ==
    {[kind |-> "object", id |-> id, method |-> m, params |-> ""] :
        id \in {"", "1", "2"}, m \in {"initialize", "tools/list", "ping"}}
    \cup
    {[kind |-> "object", id |-> id, method |-> "tools/call", params |-> p] :
        id \in {"", "1", "2"}, p \in CallParams}

StdinLines == {BlankLine, NotJsonLine, JsonListLine} \cup RequestLines

NoResponse == [id |-> "", member |-> "", code |-> "", isError |-> FALSE]

ResultResponse(msg_id, isError) ==
    [id |-> msg_id, member |-> "result", code |-> "", isError |-> isError]

ErrorResponse(msg_id, code) ==
    [id |-> msg_id, member |-> "error", code |-> code, isError |-> FALSE]

Handled(response, raised) == [response |-> response, raised |-> raised]

\* _handle_request(msg), msg a dict: the response, None, or the exception
_handle_request(msg) ==
    IF msg.id = "" THEN Handled(NoResponse, "")
    ELSE IF msg.method \in {"initialize", "tools/list"}
    THEN Handled(ResultResponse(msg.id, FALSE), "")
    ELSE IF msg.method = "tools/call"
    THEN CASE msg.params = "null" ->
                  Handled(NoResponse, "AttributeError")
           [] msg.params \in {"echo", "add"} ->
                  Handled(ResultResponse(msg.id, FALSE), "")
           [] msg.params = "add_str_int" ->
                  Handled(NoResponse, "TypeError")
           [] OTHER -> Handled(ResultResponse(msg.id, TRUE), "")
    ELSE Handled(ErrorResponse(msg.id, "-32601"), "")

\* one turn of "for line in sys.stdin" in main
serve_line ==
    /\ call.fn = "mock_mcp_server"
    /\ call.raised = ""
    /\ call.read < Len(call.stdin)
    /\ LET line == call.stdin[call.read + 1]
           handled == IF line.kind = "list"
                      THEN Handled(NoResponse, "AttributeError")
                      ELSE _handle_request(line)
       IN IF line.kind \in {"blank", "not_json"}
          THEN call' = [call EXCEPT !.read = @ + 1]
          ELSE call' = [call EXCEPT
                   !.read = @ + 1,
                   !.raised = handled.raised,
                   !.stdout = IF handled.response # NoResponse
                              THEN Append(@, handled.response)
                              ELSE @]

InitRest ==
    /\ _persistent_globals = EmptyDict
    /\ snap = NoBytes
    /\ last = [op |-> "init", result |-> Return, prev |-> EmptyDict,
               exc |-> NoExc, bound |-> EmptyDict, start |-> EmptyDict,
               data |-> NoBytes]
    /\ trip = NoTrip
    /\ run = NoRun
    /\ sec = NoSandbox
    /\ promises = {}
    /\ hostSlot = NoSlots
    /\ posted = <<>>
    /\ delivered = 0
    /\ sweeping = NoPromise
    /\ _eryx_async_import_result = NoStored
    /\ got = NoGot
    /\ invoked = NoInvoke
    /\ abi = NoAbi
    /\ wset = NoWaitableSet
    /\ mcp = NoManager
    /\ srv = NoServer

Init == InitRest /\ call = NoCall

Execute ==
    /\ \E code \in Programs(Stmts, BOOLEAN) : execute(code)
    /\ UNCHANGED <<run, sec, asyncVars, mcp, srv, call>>

ExecuteErr ==
    /\ \E code \in Programs(ErrStmts, BOOLEAN) : execute(code)
    /\ UNCHANGED <<run, sec, asyncVars, mcp, srv, call>>

ExecuteSnap ==
    /\ \E code \in Programs(SnapStmts, {FALSE}) : execute(code)
    /\ UNCHANGED <<run, sec, asyncVars, mcp, srv, call>>

Snapshot == snapshot_state /\ UNCHANGED <<run, sec, asyncVars, mcp, srv, call>>

Restore ==
    /\ \E data \in RestoreInputs : restore_state(data)
    /\ UNCHANGED <<run, sec, asyncVars, mcp, srv, call>>

Clear == clear_state /\ UNCHANGED <<run, sec, asyncVars, mcp, srv, call>>

\* A session whose programs bind, rebind and delete names
Next == Execute \/ Snapshot \/ Restore \/ Clear

Spec == Init /\ [][Next]_vars

\* A session whose programs raise
NextErr == ExecuteErr \/ Snapshot \/ Restore \/ Clear

SpecErrors == Init /\ [][NextErr]_vars

\* A session whose state nears the snapshot ceiling
NextSnap == ExecuteSnap \/ Snapshot \/ Restore \/ Clear

SpecSnapshot == Init /\ [][NextSnap]_vars

\* a stateless Sandbox: every execute() runs in a fresh guest instance
SandboxExecute ==
    /\ \E code \in Programs(Stmts, BOOLEAN) : sandbox_execute(code)
    /\ UNCHANGED <<run, sec, asyncVars, mcp, srv, call>>

NextSandbox == SandboxExecute

SpecSandbox == Init /\ [][NextSandbox]_vars

\* one execute() call at a time against its execution timeout
Start ==
    /\ \E finite \in BOOLEAN, limit \in 1..MaxTimeout,
          guest \in {"loops", "finishes"}, steps \in 1..MaxGuestSteps :
          StartExecute(finite, limit, guest, steps)
    /\ UNCHANGED <<guestVars, sec, asyncVars, mcp, srv, call>>

Tick == EpochTick /\ UNCHANGED <<guestVars, sec, asyncVars, mcp, srv, call>>

Step == GuestStep /\ UNCHANGED <<guestVars, sec, asyncVars, mcp, srv, call>>

Await == GuestInvoke /\ UNCHANGED <<guestVars, sec, asyncVars, mcp, srv, call>>

Resolve == CallbackResolve /\ UNCHANGED <<guestVars, sec, asyncVars, mcp, srv, call>>

Timeout == ExecutionTimeout /\ UNCHANGED <<guestVars, sec, asyncVars, mcp, srv, call>>

NextTimeout == Start \/ Tick \/ Step \/ Await \/ Resolve \/ Timeout

\* the host's epoch timer and deadline watchdog run on their own thread
SpecTimeout ==
    Init /\ [][NextTimeout]_vars /\ WF_vars(Tick) /\ WF_vars(Timeout)

\* a sandbox with secrets and the guest code it runs
Build ==
    /\ \E env \in SeqsUpTo(EnvSpecs, MaxEnv), environ \in HostEnvirons,
          allowed \in {{"api.example.com"}, Hosts}, scrub \in BOOLEAN :
          BuildSandbox(env, environ, allowed, scrub)
    /\ UNCHANGED <<guestVars, run, asyncVars, mcp, srv, call>>

Getenv ==
    /\ \E name \in SecretNames : GuestGetenv(name)
    /\ UNCHANGED <<guestVars, run, asyncVars, mcp, srv, call>>

PrintOut ==
    /\ \E stream \in {"stdout", "stderr"}, tok \in sec.known :
          GuestPrint(stream, tok)
    /\ UNCHANGED <<guestVars, run, asyncVars, mcp, srv, call>>

Raise ==
    /\ \E tok \in sec.known : GuestRaise(tok)
    /\ UNCHANGED <<guestVars, run, asyncVars, mcp, srv, call>>

Request ==
    /\ \E host \in Hosts, tok \in sec.known : GuestRequest(host, tok)
    /\ UNCHANGED <<guestVars, run, asyncVars, mcp, srv, call>>

NextSecrets == Build \/ Getenv \/ PrintOut \/ Raise \/ Request

SpecSecrets == Init /\ [][NextSecrets]_vars

\* guest-initiated callbacks in flight
Immediate ==
    /\ \E res \in HostResults : InvokeImmediate(res)
    /\ UNCHANGED <<guestVars, run, sec, mcp, srv, call>>

Pending ==
    /\ \E code \in PendingCodes : InvokePending(code)
    /\ UNCHANGED <<guestVars, run, sec, mcp, srv, call>>

HostDone ==
    /\ \E p \in PromiseIds, res \in HostResults : HostResolve(p, res)
    /\ UNCHANGED <<guestVars, run, sec, mcp, srv, call>>

Deliver == export_async_callback /\ UNCHANGED <<guestVars, run, sec, mcp, srv, call>>

Collect == GuestCollect /\ UNCHANGED <<guestVars, run, sec, mcp, srv, call>>

DropSet == waitable_set_drop /\ UNCHANGED <<guestVars, run, sec, mcp, srv, call>>

NextAsync ==
    Immediate \/ Pending \/ HostDone \/ Deliver \/ Collect \/ DropSet

SpecAsync == Init /\ [][NextAsync]_vars

\* a tool-server manager and the calls made on it
McpConnect ==
    /\ \E name \in ServerNames,
          outcome \in {"ready", "bad_command", "handshake_failed"} :
          mcp_connect(name, outcome)
    /\ UNCHANGED <<guestVars, run, sec, asyncVars, srv, call>>

McpCrash ==
    /\ \E name \in ServerNames : mcp_crash(name)
    /\ UNCHANGED <<guestVars, run, sec, asyncVars, srv, call>>

McpCallTool ==
    /\ \E name \in ServerNames : mcp_call_tool(name)
    /\ UNCHANGED <<guestVars, run, sec, asyncVars, srv, call>>

McpClose == mcp_close /\ UNCHANGED <<guestVars, run, sec, asyncVars, srv, call>>

NextMcp == McpConnect \/ McpCrash \/ McpCallTool \/ McpClose

SpecMcp == Init /\ [][NextMcp]_vars

\* _extract_stdio_servers applied to a parsed config file
InitExtract ==
    /\ InitRest
    /\ \E data \in ExtractInputs :
          call = [fn |-> "extract_input", data |-> data, key |-> "mcpServers"]

Extract ==
    /\ extract_call
    /\ UNCHANGED <<guestVars, run, sec, asyncVars, mcp, srv>>

NextExtract == Extract

SpecExtract == InitExtract /\ [][NextExtract]_vars

\* discover_servers applied to a list of config sources
InitDiscover ==
    /\ InitRest
    /\ \E sources \in SeqsUpTo(Sources, MaxFiles) :
          call = [fn |-> "discover_input", sources |-> sources]

Discover ==
    /\ discover_call
    /\ UNCHANGED <<guestVars, run, sec, asyncVars, mcp, srv>>

NextDiscover == Discover

SpecDiscover == InitDiscover /\ [][NextDiscover]_vars

\* _expand_env_vars applied to a value
InitExpand ==
    /\ InitRest
    /\ \E segs \in SeqsUpTo(Segments, MaxSegments) :
          call = [fn |-> "expand_input", segs |-> segs]

Expand ==
    /\ expand_call
    /\ UNCHANGED <<guestVars, run, sec, asyncVars, mcp, srv>>

NextExpand == Expand

SpecExpand == InitExpand /\ [][NextExpand]_vars

\* -v/--volume parsed by one of the commands
InitVolume ==
    /\ InitRest
    /\ \E input \in VolumeInputs :
          call = [fn |-> "volume_input", input |-> input]

ParseVolume ==
    /\ \E command \in Commands : volume_call(command)
    /\ UNCHANGED <<guestVars, run, sec, asyncVars, mcp, srv>>

NextVolume == ParseVolume

SpecVolume == InitVolume /\ [][NextVolume]_vars

\* connect_servers over config files and connect outcomes
InitConnect ==
    /\ InitRest
    /\ \E sources \in SeqsUpTo(ConnectSources, MaxFiles) :
          call = [fn |-> "connect_input", sources |-> sources]

ConnectNext ==
    \E name \in {"a", "b", "c"}, outcome \in ConnectOutcomes :
        connect_next(name, outcome)

NextConnect == connect_servers \/ ConnectNext

SpecConnect == InitConnect /\ [][NextConnect]_vars

\* the code-execution tools of eryx serve and eryx wrap
Serve ==
    /\ \E server \in {"eryx serve", "eryx wrap"}, timeout \in TimeoutValues :
          StartServer(server, timeout)
    /\ UNCHANGED <<guestVars, run, sec, asyncVars, mcp, call>>

RunPython ==
    /\ \E timeout_ms \in TimeoutValues,
          out \in SeqsUpTo(StdoutChunks, MaxChunks),
          err \in SeqsUpTo(StderrChunks, MaxChunks),
          outcome \in ExecuteOutcomes :
          /\ Len(out) + Len(err) <= MaxChunks
          /\ run_python(timeout_ms, out, err, outcome)
    /\ UNCHANGED <<guestVars, run, sec, asyncVars, mcp, call>>

ExecutePython ==
    /\ \E timeout_ms \in TimeoutValues,
          out \in SeqsUpTo(StdoutChunks, MaxChunks),
          err \in SeqsUpTo(StderrChunks, MaxChunks),
          outcome \in ExecuteOutcomes :
          /\ Len(out) + Len(err) <= MaxChunks
          /\ execute_python(timeout_ms, out, err, outcome)
    /\ UNCHANGED <<guestVars, run, sec, asyncVars, mcp, call>>

NextTools == Serve \/ RunPython \/ ExecutePython

SpecTools == Init /\ [][NextTools]_vars

\* the command line of eryx
InitMain ==
    /\ InitRest
    /\ \E input \in MainInputs :
          call = [fn |-> "main_input", input |-> input]

Main ==
    /\ main_call
    /\ UNCHANGED <<guestVars, run, sec, asyncVars, mcp, srv>>

NextMain == Main

SpecMain == InitMain /\ [][NextMain]_vars

\* execute() of code that only prints
InitStdout ==
    /\ InitRest
    /\ \E prints \in SeqsUpTo(PrintTexts, MaxPrints) :
          call = [fn |-> "stdout_input", prints |-> prints]

Stdout ==
    /\ stdout_call
    /\ UNCHANGED <<guestVars, run, sec, asyncVars, mcp, srv>>

NextStdout == Stdout

SpecStdout == InitStdout /\ [][NextStdout]_vars

\* eryx wrap over its server sources
InitWrap ==
    /\ InitRest
    /\ \E fastmcp \in BOOLEAN, inline \in {"", "fs"},
          config \in SeqsUpTo(WrapSources, MaxFiles),
          mcp_config \in SeqsUpTo(WrapSources, MaxFiles) :
          call = [fn |-> "wrap_input",
                  input |-> [fastmcp |-> fastmcp, inline |-> inline,
                             config |-> config, mcp_config |-> mcp_config]]

Wrap == \E outcome \in ConnectOutcomes : wrap(outcome)

WrapNext ==
    \E name \in {"a", "b", "c"}, outcome \in ConnectOutcomes :
        wrap_next(name, outcome)

NextWrap == Wrap \/ WrapNext

SpecWrap == InitWrap /\ [][NextWrap]_vars

\* A session whose programs rebind the names of the execution globals
ExecuteExcluded ==
    /\ \E code \in Programs(ExcludedStmts, BOOLEAN) : execute(code)
    /\ UNCHANGED <<run, sec, asyncVars, mcp, srv, call>>

NextExcluded == ExecuteExcluded \/ Snapshot \/ Restore \/ Clear

SpecExcluded == Init /\ [][NextExcluded]_vars

\* guest code calling invoke()
InitInvoke ==
    /\ InitRest
    /\ call = [fn |-> "invoke", calls |-> <<>>, trace |-> <<>>]

Invoke ==
    /\ \E name \in CallbackNames : invoke(name)
    /\ UNCHANGED <<guestVars, run, sec, asyncVars, mcp, srv>>

InvokeResume ==
    /\ \E i \in 1..MaxInvokes, outcome \in AwaitOutcomes :
          invoke_resume(i, outcome)
    /\ UNCHANGED <<guestVars, run, sec, asyncVars, mcp, srv>>

NextInvoke == Invoke \/ InvokeResume

SpecInvoke == InitInvoke /\ [][NextInvoke]_vars

\* a session whose history keeps the program of the last execute()
ExecuteTraced ==
    /\ \E code \in Programs(TracedStmts, BOOLEAN) :
          /\ execute(code)
          /\ call' = [fn |-> "execute", code |-> code]
    /\ UNCHANGED <<run, sec, asyncVars, mcp, srv>>

NextTraced == ExecuteTraced \/ Snapshot \/ Restore \/ Clear

SpecTraced == Init /\ [][NextTraced]_vars

\* A session whose state holds values that do not pickle
ExecutePortable ==
    /\ \E code \in Programs(PortableStmts, {FALSE}) : execute(code)
    /\ UNCHANGED <<run, sec, asyncVars, mcp, srv, call>>

NextPortable == ExecutePortable \/ Snapshot \/ Restore \/ Clear

SpecPortable == Init /\ [][NextPortable]_vars

\* a guest instance and the streams of its sys module
InitStreams ==
    /\ InitRest
    /\ call = [fn |-> "streams", n |-> 0, old_stdout |-> 0, old_stderr |-> 0,
               stdout |-> 0, stderr |-> 0, tracing |-> FALSE]

ExecuteStreams ==
    /\ \E code \in Programs(ErrStmts, BOOLEAN) : execute_streams(code)
    /\ UNCHANGED <<run, sec, asyncVars, mcp, srv>>

NextStreams == ExecuteStreams

SpecStreams == InitStreams /\ [][NextStreams]_vars

\* one run of a command
InitCommand ==
    /\ InitRest
    /\ \E cmd \in CommandNames :
          call = [fn |-> "command", cmd |-> cmd, phase |-> "connect",
                  exit |-> "", at |-> ""]

CommandConnect ==
    /\ \E names \in SUBSET ServerNames, raised \in BOOLEAN :
          command_connect(names, raised)
    /\ UNCHANGED <<guestVars, run, sec, asyncVars, srv>>

CommandBuild ==
    /\ \E outcome \in {"ok", "InitializationError"} : command_build(outcome)
    /\ UNCHANGED <<guestVars, run, sec, asyncVars, srv>>

CommandDescribe ==
    /\ \E outcome \in {"ok", "RuntimeError"} : command_describe(outcome)
    /\ UNCHANGED <<guestVars, run, sec, asyncVars, srv>>

CommandRun ==
    /\ \E outcome \in {"ok", "KeyboardInterrupt"} : command_run(outcome)
    /\ UNCHANGED <<guestVars, run, sec, asyncVars, srv>>

NextCommand == CommandConnect \/ CommandBuild \/ CommandDescribe \/ CommandRun

SpecCommand == InitCommand /\ [][NextCommand]_vars

\* eryx wrap with an inline server whose name a config file uses as well
InitWrapNames ==
    /\ InitRest
    /\ \E inline \in {"a", "fs"},
          config \in SeqsUpTo(WrapSources, MaxFiles),
          mcp_config \in SeqsUpTo(WrapSources, MaxFiles) :
          call = [fn |-> "wrap_input",
                  input |-> [fastmcp |-> TRUE, inline |-> inline,
                             config |-> config, mcp_config |-> mcp_config]]

SpecWrapNames == InitWrapNames /\ [][NextWrap]_vars

\* the mock tool server on the lines a client writes to it
InitMock ==
    /\ InitRest
    /\ \E stdin \in SeqsUpTo(StdinLines, MaxLines) :
          call = [fn |-> "mock_mcp_server", stdin |-> stdin, read |-> 0,
                  stdout |-> <<>>, raised |-> ""]

ServeLine ==
    /\ serve_line
    /\ UNCHANGED <<guestVars, run, sec, asyncVars, mcp, srv>>

NextMock == ServeLine

SpecMock == InitMock /\ [][NextMock]_vars

(***************************************************************************)
(* Properties of the session state                                         *)
(***************************************************************************)
\* The namespace the next execute() starts with
StartGlobals == _get_exec_globals(_persistent_globals, "Func", "Func")

ApiKeys == DOMAIN _get_base_globals \cup {"invoke", "list_callbacks"}

\* A binding C1 speaks about: no reserved or base name, no leading
\* underscore, a value that is neither None nor a module
Covered(n, v) ==
    /\ n \notin ApiKeys \cup _EXCLUDED_KEYS
    /\ ~StartsWithUnderscore(n)
    /\ v \notin {"None", "Module"}

\* C1: a covered name that an execute() which returned normally left bound
\* at top level is bound to that value when the next execute() starts, and
\* every name of the state that a call other than restore_state or
\* clear_state did not rebind is still bound to the value it had.
C1_NamesPersist ==
    /\ (last.op = "execute" /\ last.result.kind = "return") =>
          \A n \in DOMAIN last.bound :
              Covered(n, last.bound[n]) =>
                  /\ n \in DOMAIN StartGlobals
                  /\ StartGlobals[n] = last.bound[n]
    /\ last.op \in {"execute", "snapshot"} =>
          \A n \in DOMAIN last.prev \ DOMAIN last.bound :
              /\ n \in DOMAIN StartGlobals
              /\ StartGlobals[n] = last.prev[n]

\* An execute() returned after binding a covered name, with another name
\* already in the state that it did not rebind
C1_Witness ==
    /\ last.op = "execute"
    /\ last.result.kind = "return"
    /\ \E n \in DOMAIN last.bound : Covered(n, last.bound[n])
    /\ DOMAIN last.prev \ DOMAIN last.bound # {}

AllPortable(S) == \A k \in DOMAIN S : _is_picklable(S[k])

\* C2: when b = snapshot_state() was taken in a state S whose values all
\* pickle, then clear_state() and restore_state(b) were called, the restore
\* succeeds and the persistent state is S again, so the next execute()
\* starts with exactly the bindings of S beside the API names.
C2_SnapshotRoundTrip ==
    (trip.stage = 3 /\ AllPortable(trip.S)) =>
        /\ last.result.kind = "return"
        /\ _persistent_globals = trip.S
        /\ Restrict(StartGlobals, DOMAIN StartGlobals \ ApiKeys) = trip.S

\* The round trip was made from a portable state that binds two names
C2_Witness ==
    /\ trip.stage = 3
    /\ AllPortable(trip.S)
    /\ Cardinality(DOMAIN trip.S) = 2

Malformed(data) == data.fmt # "pickle" \/ data.type # "dict"

\* C3: restore_state on bytes that are no pickle stream, or that are the
\* pickle of something other than a dict, raises Err and leaves the
\* persistent state as it was before the call.
C3_MalformedRestoreKeepsState ==
    (last.op = "restore" /\ Malformed(last.data)) =>
        /\ last.result.kind = "Err"
        /\ _persistent_globals = last.prev

\* A malformed restore was tried on a session that held names
C3_Witness ==
    /\ last.op = "restore"
    /\ Malformed(last.data)
    /\ DOMAIN last.prev # {}

\* The length of the stream snapshot_state() builds from a state
SerializedLen(S) == BytesLen(PickleDumps(_filter_picklable(S).picklable))

\* C4: snapshot_state() raises the size error when the serialized state is
\* longer than MAX_SNAPSHOT_SIZE and returns the bytes when it is not; the
\* persistent state is the same after the call in both cases.
C4_SnapshotCeiling ==
    last.op = "snapshot" =>
        /\ SerializedLen(last.prev) > MAX_SNAPSHOT_SIZE =>
              /\ last.result = ErrResult("", "Snapshot too large", FALSE)
              /\ last.data = NoBytes
        /\ SerializedLen(last.prev) <= MAX_SNAPSHOT_SIZE =>
              /\ last.result.kind = "return"
              /\ last.data = PickleDumps(_filter_picklable(last.prev).picklable)
              /\ snap = last.data
        /\ _persistent_globals = last.prev

\* A snapshot one byte over the ceiling was refused
C4_Witness ==
    /\ last.op = "snapshot"
    /\ SerializedLen(last.prev) = MAX_SNAPSHOT_SIZE + 1
    /\ last.result.kind = "Err"

\* C5: after clear_state() the persistent state is empty, and the next
\* execute() starts with the base and API names only.
C5_ClearEmptiesState ==
    last.op = "clear" =>
        /\ _persistent_globals = EmptyDict
        /\ StartGlobals =
              DictSet(DictSet(_get_base_globals, "invoke", "Func"),
                      "list_callbacks", "Func")

\* clear_state() was called on a session that held names
C5_Witness == last.op = "clear" /\ DOMAIN last.prev # {}

\* C6: an execute() whose code raised (at compile time or at run time)
\* raises Err carrying the exception's type, its message and the traceback.
C6_EveryExceptionBecomesErr ==
    (last.op = "execute" /\ last.exc # NoExc) =>
        last.result = ErrResult(last.exc.type, last.exc.text, TRUE)

(***************************************************************************)
(* C7: for every secret bound to a sandbox, the raw secret value is in no  *)
(* output of the call (stdout, stderr, error message); the guest only ever *)
(* holds the placeholder, and with scrubbing enabled the placeholder is    *)
(* replaced by [REDACTED] before output reaches the caller.                *)
(***************************************************************************)
Range(s) == {s[i] : i \in DOMAIN s}

Outputs == Range(sec.stdout) \cup Range(sec.stderr) \cup Range(sec.error)

C8_TimeoutTerminates ==
    /\ [](run.phase = "done" /\ run.guest = "loops"
             => run.result = "TimeoutError" /\ run.exit = 1)
    /\ (run.phase = "running" /\ run.guest = "loops" /\ run.finite)
          ~> (run.phase = "done" /\ run.guest = "loops"
              /\ run.result = "TimeoutError")

C8_Witness ==
    /\ run.phase = "done"
    /\ run.guest = "loops"
    /\ run.finite
    /\ run.result = "TimeoutError"
    /\ run.exit = 1

Resolved(res) ==
    [kind |-> IF res.ok THEN "return" ELSE "RuntimeError",
     text |-> <<res.text>>]

Posts(p) == Cardinality({i \in DOMAIN posted : posted[i] = p})

Variant(r) ==
    IF r.kind = "Ok" THEN "Ok"
    ELSE IF r.payload = "tuple" THEN "Pending" ELSE "Err"

C12_ThreeWayVariant ==
    invoked # NoInvoke =>
        /\ abi.result_type = 0 =>
              Variant(invoked) = "Ok" /\ invoked.text = abi.value.text
        /\ abi.result_type = 1 =>
              Variant(invoked) = "Err" /\ invoked.text = abi.value.text
        /\ abi.result_type \notin {0, 1} =>
              /\ Variant(invoked) = "Pending"
              /\ invoked.waitable = abi.value.waitable
              /\ invoked.promise = abi.value.promise

\* the pending form was returned, for a result code other than 2, to the
\* second invoke in flight
C12_Witness ==
    /\ abi.result_type = 3
    /\ Variant(invoked) = "Pending"
    /\ invoked.promise = 2

(***************************************************************************)
(* C13: close() on the tool-server manager is idempotent: calling it any   *)
(* number of times, in any state, has the same effect as calling it once,  *)
(* never raises, and after it every child process of the manager has been  *)
(* joined.                                                                 *)
(***************************************************************************)
C13_CloseIdempotent ==
    mcp.closes >= 1 =>
        /\ mcp.op = "close" => mcp.raised = ""
        /\ mcp.servers = mcp.after
        /\ \A n \in DOMAIN mcp.servers : mcp.servers[n].child = "joined"

\* close() was called twice on a manager that had a ready server and a
\* crashed one
C13_Witness ==
    /\ mcp.closes = 2
    /\ mcp.op = "close"
    /\ \E n, m \in DOMAIN mcp.before :
          /\ mcp.before[n] = [state |-> "Ready", child |-> "running"]
          /\ mcp.before[m] = [state |-> "Faulted", child |-> "exited"]

(***************************************************************************)
(* C15: server discovery includes an entry of a config mapping if and only *)
(* if its type is "stdio" or absent, disabled is not true, enabled is not  *)
(* false, command is set, and it is not a remote-only entry (url,          *)
(* serverUrl or httpUrl without command); each included entry is           *)
(* normalised to its command, its args (default empty list) and its env    *)
(* (default empty map).                                                    *)
(***************************************************************************)
Has(c, k) == k \in DOMAIN c

IsSet(c, k) == Has(c, k) /\ c[k] \notin {"", "null"}

ShouldInclude(entry) ==
    /\ entry.kind = "dict"
    /\ ~Has(entry.d, "type") \/ entry.d["type"] = "stdio"
    /\ ~(Has(entry.d, "disabled") /\ entry.d["disabled"] = "true")
    /\ ~(Has(entry.d, "enabled") /\ entry.d["enabled"] = "false")
    /\ IsSet(entry.d, "command")
    /\ ~(/\ ~IsSet(entry.d, "command")
         /\ \E k \in {"url", "serverUrl", "httpUrl"} : IsSet(entry.d, k))

Found(sources, i) ==
    LET data == ReadSource(sources[i])
    IN IF data.kind = "dict"
       THEN _extract_stdio_servers(data, sources[i].key).servers
       ELSE NoServerConfigs

Defining(sources, n) ==
    {i \in DOMAIN sources : n \in DOMAIN Found(sources, i)}

Latest(S) == CHOOSE i \in S : \A j \in S : j <= i

C16_LaterSourcesOverride ==
    (call.fn = "discover_servers" /\ call.out.raised = "") =>
        /\ \A n \in DOMAIN call.out.servers :
              Defining(call.sources, n) # {}
        /\ \A n \in {"a", "b"} :
              Defining(call.sources, n) # {} =>
                  /\ n \in DOMAIN call.out.servers
                  /\ call.out.servers[n] =
                         Found(call.sources,
                               Latest(Defining(call.sources, n)))[n]

\* two files define server a differently and the second one's is returned
C16_Witness ==
    /\ call.fn = "discover_servers"
    /\ Len(call.sources) = 2
    /\ Defining(call.sources, "a") = {1, 2}
    /\ Found(call.sources, 1)["a"] # Found(call.sources, 2)["a"]
    /\ call.out.servers["a"] = Found(call.sources, 2)["a"]

(***************************************************************************)
(* C17: missing, unreadable or invalid config files are silently skipped:  *)
(* for every list of config paths and every file content, discover_servers *)
(* returns a (possibly empty) mapping without raising; a skipped file      *)
(* contributes no servers and does not stop the remaining files from being *)
(* read.                                                                   *)
(***************************************************************************)
C17_BadFilesSkipped ==
    call.fn = "discover_servers" =>
        /\ call.out.raised = ""
        /\ \A n \in {"a", "b"} :
              n \in DOMAIN call.out.servers <=>
                  Defining(call.sources, n) # {}

(***************************************************************************)
(* C18: environment-value interpolation: every $VAR and ${VAR} in a value  *)
(* is replaced by the variable's value, or by the empty string when the    *)
(* variable is unset; every ${VAR:-default} is replaced by the variable's  *)
(* value when it is set and non-empty, otherwise by default; all text      *)
(* outside these forms is left unchanged.                                  *)
(***************************************************************************)
IsSetVar(name) == name \in DOMAIN Environ

\* what the claim gives for one piece of a value
Expansion(seg) ==
    LET t == seg.text
    IN CASE seg.form = "text" -> t
         [] seg.form = "var" ->
               LET name == SubSeq(t, 2, Len(t))
               IN IF IsSetVar(name) THEN Environ[name] ELSE <<>>
         [] seg.form = "brace" ->
               LET name == SubSeq(t, 3, Len(t) - 1)
               IN IF IsSetVar(name) THEN Environ[name] ELSE <<>>
         [] seg.form = "default" ->
               LET name == <<t[3]>>
                   default == SubSeq(t, 6, Len(t) - 1)
               IN IF IsSetVar(name) /\ Environ[name] # <<>>
                  THEN Environ[name]
                  ELSE default

RECURSIVE Expansions(_, _)
Expansions(segs, i) ==
    IF i > Len(segs) THEN <<>>
    ELSE Expansion(segs[i]) \o Expansions(segs, i + 1)

C18_EnvInterpolation ==
    call.fn = "_expand_env_vars" => call.out = Expansions(call.segs, 1)

\* a default was used for an empty variable, next to a plain $VAR
C18_Witness ==
    /\ call.fn = "_expand_env_vars"
    /\ call.segs = <<[text |-> <<"$", "{", "E", ":", "-", "d", "}">>,
                      form |-> "default"],
                     [text |-> <<"$", "A">>, form |-> "var"]>>
    /\ call.out = <<"d", "v", "$", "A">>

(***************************************************************************)
(* C19: volume spec parsing: for every SRC and DST, the spec SRC:DST       *)
(* parses to (SRC, DST, read_only=false), SRC:DST:rw to (SRC, DST, false)  *)
(* and SRC:DST:ro to (SRC, DST, true); every other string (missing DST,    *)
(* unknown mode, extra fields) is rejected with an argument error and      *)
(* yields no mount.                                                        *)
(***************************************************************************)
NoColon(s) == \A i \in DOMAIN s : s[i] # ":"

C19_VolumeSpecParsing ==
    (call.fn = "parse_volume" /\ NoColon(call.input.src)) =>
        LET in == call.input
        IN CASE in.tail = <<>> ->
                  call.out = Mount(in.src, in.dst, FALSE)
             [] in.tail = <<":", "r", "w">> ->
                  call.out = Mount(in.src, in.dst, FALSE)
             [] in.tail = <<":", "r", "o">> ->
                  call.out = Mount(in.src, in.dst, TRUE)
             [] in.tail \in {<<"missing">>, <<":", "r", "x">>,
                             <<":", "r", "o", ":", "x">>} ->
                  call.out = ArgumentTypeError
             [] OTHER -> TRUE

(***************************************************************************)
(* C20: the volume-spec parser of the command line tolerates a Windows     *)
(* drive-letter prefix: a spec whose SRC starts with a single alphabetic   *)
(* character followed by a colon parses with the drive letter kept as part *)
(* of SRC, in every command that accepts -v/--volume (eryx, eryx serve,    *)
(* eryx wrap).                                                             *)
(***************************************************************************)
DriveLetterSrc(src) ==
    Len(src) > 2 /\ IsAlpha(src[1]) /\ src[2] = ":" /\ src[3] = "\\"

C20_DriveLetterTolerated ==
    (call.fn = "parse_volume" /\ DriveLetterSrc(call.input.src)) =>
        LET in == call.input
        IN /\ in.tail \in {<<>>, <<":", "r", "w">>} =>
                 call.out = Mount(in.src, in.dst, FALSE)
           /\ in.tail = <<":", "r", "o">> =>
                 call.out = Mount(in.src, in.dst, TRUE)

(***************************************************************************)
(* C21: connect_servers returns None if and only if no server was          *)
(* discovered or every connection attempt failed; otherwise it returns a   *)
(* manager holding exactly the servers whose connect succeeded.  A failed  *)
(* connection to one server never prevents the attempt to connect the      *)
(* remaining servers and never raises to the caller.                       *)
(***************************************************************************)
Held(manager) ==
    {n \in DOMAIN manager.servers : manager.servers[n].state = "Ready"}

C21_ConnectServers ==
    call.fn = "connect_servers" =>
        /\ call.phase = "returned" =>
             /\ call.result = "None" <=>
                  \/ DOMAIN call.servers = {}
                  \/ call.failed = DOMAIN call.servers
             /\ call.result # "None" =>
                  /\ call.result = "manager"
                  /\ Held(mcp) = call.ok
             /\ call.ok \cup call.failed = DOMAIN call.servers
        /\ call.phase # "raised"

(***************************************************************************)
(* C22: the text result of run_python (eryx serve) and execute_python      *)
(* (eryx wrap) on success is: the captured stdout if non-empty, then       *)
(* `[stderr]' followed by a newline and the captured stderr if non-empty,  *)
(* the present parts joined by a newline; it is exactly `(no output)' if   *)
(* and only if the code produced neither stdout nor stderr.               *)
(***************************************************************************)
Succeeded == srv.last.tool # "" /\ srv.last.raises = ""

\* the result has the stated layout when there is output
ResultLayout ==
    LET o == srv.last.emitted_out
        e == srv.last.emitted_err
        r == srv.last.returned
    IN /\ (o # <<>> /\ e = <<>>) => r = o
       /\ (o = <<>> /\ e # <<>>) => r = <<"[stderr]", "\n">> \o e
       /\ (o # <<>> /\ e # <<>>) =>
              r = o \o <<"\n">> \o <<"[stderr]", "\n">> \o e

\* the claim as stated
C22_TextResult ==
    Succeeded =>
        /\ ResultLayout
        /\ srv.last.returned = <<"(no output)">> <=>
               (srv.last.emitted_out = <<>> /\ srv.last.emitted_err = <<>>)

\* C22 as amended: the layout, and `(no output)' whenever nothing was
\* produced; the same text also results when the code wrote exactly
\* `(no output)' to stdout and nothing to stderr.
C22_TextResultAmended ==
    Succeeded =>
        /\ ResultLayout
        /\ (srv.last.emitted_out = <<>> /\ srv.last.emitted_err = <<>>) =>
               srv.last.returned = <<"(no output)">>
        /\ srv.last.returned = <<"(no output)">> =>
               /\ srv.last.emitted_err = <<>>
               /\ srv.last.emitted_out \in {<<>>, <<"(no output)">>}

C22_Witness ==
    /\ Succeeded
    /\ srv.last.emitted_out # <<>>
    /\ srv.last.emitted_err # <<>>
    /\ srv.last.left
    /\ srv.last.returned =
           srv.last.emitted_out \o <<"\n", "[stderr]", "\n">>
           \o srv.last.emitted_err

(***************************************************************************)
(* C23: run_python / execute_python never raise for a guest failure: when  *)
(* session.execute fails with an execution error, a timeout or a           *)
(* resource-limit error, the tool returns a text result made of the output *)
(* captured before the failure followed by the error message as its last   *)
(* part, and the session remains usable for the next call.                 *)
(***************************************************************************)
GuestFailed ==
    /\ srv.last.tool # ""
    /\ srv.last.raises \in
           {"ExecutionError", "TimeoutError", "ResourceLimitError"}

C23_GuestFailureIsText ==
    GuestFailed =>
        LET o == srv.last.emitted_out
            e == srv.last.emitted_err
            m == srv.last.message
            r == srv.last.returned
        IN /\ srv.last.raised = ""
           /\ (o = <<>> /\ e = <<>>) => r = m
           /\ (o # <<>> /\ e = <<>>) => r = o \o <<"\n">> \o m
           /\ (o = <<>> /\ e # <<>>) =>
                  r = <<"[stderr]", "\n">> \o e \o <<"\n">> \o m
           /\ (o # <<>> /\ e # <<>>) =>
                  r = o \o <<"\n", "[stderr]", "\n">> \o e \o <<"\n">> \o m
           /\ ENABLED (RunPython \/ ExecutePython)

C23_Witness ==
    /\ GuestFailed
    /\ srv.last.raises = "TimeoutError"
    /\ srv.last.emitted_out # <<>>
    /\ srv.last.emitted_err # <<>>
    /\ srv.last.left

(***************************************************************************)
(* C24: the timeout_ms argument of run_python / execute_python applies to  *)
(* that call only: the call runs with execution timeout timeout_ms, and    *)
(* after the call ends (normal result, converted error, or propagated      *)
(* exception) session.execution_timeout_ms equals the value it had before  *)
(* the call; a call without timeout_ms never changes the session timeout.  *)
(***************************************************************************)
C24_TimeoutForThatCallOnly ==
    srv.last.tool # "" =>
        /\ srv.last.timeout_ms # "None" =>
               srv.last.ran_with = srv.last.timeout_ms
        /\ srv.last.timeout_ms = "None" =>
               srv.last.ran_with = srv.last.old_timeout
        /\ srv.session.execution_timeout_ms = srv.last.old_timeout

C24_Witness ==
    /\ srv.last.tool # ""
    /\ srv.last.raised = "InitializationError"
    /\ srv.last.timeout_ms = "100"
    /\ srv.last.old_timeout = "500"
    /\ srv.session.execution_timeout_ms = "500"

(***************************************************************************)
(* C25: the CLI main() returns exit code 0 when the code ran to completion *)
(* and 1 when it failed: for every EryxError raised while running the code *)
(* (timeout, resource limit, execution error, any other Eryx error) and    *)
(* for an unreadable or missing script file, main prints the error to      *)
(* stderr and returns 1 instead of propagating the exception.              *)
(***************************************************************************)
\* the code handed to main reaches sandbox.execute
RunsCode(in) ==
    /\ in.first # "serve"
    /\ in.rest \in {<<>>, <<"--mcp">>}
    /\ \/ in.first \in {"-c", "-"}
       \/ in.first \in {"script.py", "wrap"} /\ in.file = ""
       \/ in.first = "" /\ in.stdin = "code"

\* a script file is named and cannot be opened
ScriptFails(in) ==
    /\ in.first = "script.py"
    /\ in.rest \in {<<>>, <<"--mcp">>}
    /\ in.file \in {"FileNotFoundError", "PermissionError"}

C26_SubcommandDispatch ==
    call.fn = "main" =>
        /\ call.input.first = "serve" =>
               (call.out.to = "serve" /\ call.out.argv = call.input.rest)
        /\ call.input.first = "wrap" =>
               (call.out.to = "wrap" /\ call.out.argv = call.input.rest)

(***************************************************************************)
(* C27: the stdout string returned by execute() is the text the guest      *)
(* printed with only the final line terminator of the last print removed:  *)
(* interior newlines and any further trailing newlines that the guest      *)
(* itself printed are preserved (print("hello") gives "hello"; three       *)
(* prints give "line 1\nline 2\nline 3").                                  *)
(***************************************************************************)
C27_OnlyFinalTerminatorRemoved ==
    (call.fn = "execute" /\ call.prints # <<>>) =>
        call.out \o <<"\n">> = call.output

(***************************************************************************)
(* C28: eryx wrap returns exit code 1 without starting the meta-server if  *)
(* and only if no tool server could be connected from any source (inline   *)
(* command, --config files, discovery); if at least one connection         *)
(* succeeds the server starts with exactly the successfully connected      *)
(* servers.                                                                *)
(***************************************************************************)
C28_WrapExit ==
    (call.fn = "wrap" /\ call.input.fastmcp) =>
        /\ call.phase # "raised"
        /\ call.phase = "returned" =>
             /\ (call.exit = 1 /\ ~call.started) <=> call.ok = {}
             /\ call.ok # {} => (call.started /\ Held(mcp) = call.ok)

TraceCount(n, type, name) ==
    Cardinality({k \in 1..n : /\ call.trace[k].type = type
                              /\ call.trace[k].name = name})

EndsWith(name, error) ==
    Cardinality({k \in 1..Len(call.trace) :
                    call.trace[k] = TraceEvent("callback_end", name, error)})

InvokesEnded(name, outcome) ==
    Cardinality({i \in 1..Len(call.calls) :
                    /\ call.calls[i].name = name
                    /\ call.calls[i].ended = outcome})

(***************************************************************************)
(* C30: for every guest invoke(name, args) a callback_start trace event    *)
(* is reported before the call is handed to the host, and exactly one      *)
(* callback_end trace event for the same name is reported after the call   *)
(* completes: without an error field when the callback succeeded, with the *)
(* error message when it failed, whatever kind of error ends the call.     *)
(***************************************************************************)
C30_CallbackTraceEvents ==
    call.fn = "invoke" =>
        \A name \in CallbackNames :
            /\ TraceCount(Len(call.trace), "callback_start", name)
                   = Cardinality({i \in 1..Len(call.calls) :
                                     call.calls[i].name = name})
            /\ \A n \in 1..Len(call.trace) :
                   TraceCount(n, "callback_end", name)
                       <= TraceCount(n, "callback_start", name)
            /\ EndsWith(name, NoErrorField) = InvokesEnded(name, "json")
            /\ \A outcome \in AwaitOutcomes \ {"json"} :
                   EndsWith(name, ErrorMessage(outcome))
                       = InvokesEnded(name, outcome)

(***************************************************************************)
(* C31: an execute() call that fails (the guest code raises, or does not   *)
(* compile) leaves the persistent state's bindings exactly as they were    *)
(* before the call: no name the failing code assigned before the error is  *)
(* visible to later execute() calls.                                       *)
(***************************************************************************)
C31_FailedExecuteKeepsState ==
    (last.op = "execute" /\ last.result # Return) =>
        _persistent_globals = last.prev

\* the failing program assigned a name the state did not hold, then raised
C31_Witness ==
    /\ last.op = "execute"
    /\ last.exc.type = "ValueError"
    /\ call.code.body[1].op = "assign"
    /\ call.code.body[1].name \notin DOMAIN last.prev
    /\ call.code.body[1].name \notin DOMAIN _persistent_globals

(***************************************************************************)
(* C37: an execute() call never removes a name from the persistent state:  *)
(* the persisted names after a successful execute() are a superset of      *)
(* those before it (names are only added or rebound); only restore_state   *)
(* and clear_state can remove a name.                                      *)
(***************************************************************************)
C37_ExecuteNeverRemovesNames ==
    /\ (last.op = "execute" /\ last.result = Return) =>
           DOMAIN last.prev \subseteq DOMAIN _persistent_globals
    /\ ~(DOMAIN last.prev \subseteq DOMAIN _persistent_globals) =>
           last.op \in {"restore", "clear"}

\* code with a top-level await deleted a persisted name and returned
C37_Witness ==
    /\ last.op = "execute"
    /\ last.result = Return
    /\ call.code.coroutine
    /\ \E i \in 1..Len(call.code.body) :
          /\ call.code.body[i] = St("del", "x", "")
          /\ \A j \in 1..Len(call.code.body) :
                call.code.body[j].op = "assign" => j < i
    /\ "x" \in DOMAIN last.prev
    /\ "x" \in DOMAIN _persistent_globals

\* the names a pickle stream binds
StoredNames(data) == {data.items[i][1] : i \in 1..Len(data.items)}

(***************************************************************************)
(* C36: restore_state replaces the state, it does not merge: after a       *)
(* successful restore_state(b) the persistent state is exactly the         *)
(* bindings stored in b, and a name that was present before the call but   *)
(* is absent from b is no longer visible to later execute() calls.         *)
(***************************************************************************)
C36_RestoreReplaces ==
    (last.op = "restore" /\ last.result = Return) =>
        /\ DOMAIN _persistent_globals = StoredNames(last.data)
        /\ \A i \in 1..Len(last.data.items) :
              _persistent_globals[last.data.items[i][1]]
                  = last.data.items[i][2]
        /\ \A name \in DOMAIN last.prev \ StoredNames(last.data) :
              name \notin DOMAIN _get_exec_globals(_persistent_globals,
                                                   "Func", "Func")

\* the restore dropped a name the state held and the snapshot does not
C36_Witness ==
    /\ last.op = "restore"
    /\ last.result = Return
    /\ StoredNames(last.data) # {}
    /\ DOMAIN last.prev \ StoredNames(last.data) # {}
    /\ DOMAIN _persistent_globals = StoredNames(last.data)

\* the bindings of S whose value pickle.dumps can serialize
PortableSubset(S) ==
    [k \in {j \in DOMAIN S : S[j] \notin {"Lambda", "Module", "Deep"}} |->
        S[k]]

(***************************************************************************)
(* C38: snapshot_state never fails because of a non-portable value:        *)
(* bindings whose value cannot be pickled are silently omitted from the    *)
(* snapshot and every picklable binding is included, so restoring the      *)
(* snapshot yields exactly the portable subset of the state at snapshot    *)
(* time.                                                                   *)
(***************************************************************************)
C38_NonPortableOmitted ==
    /\ last.op = "snapshot" =>
          /\ last.result = Return
          /\ PickleLoads(last.data).value = PortableSubset(last.prev)
    /\ (last.op = "restore" /\ last.result = Return) =>
          \A k \in DOMAIN _persistent_globals :
              _persistent_globals[k] \notin {"Lambda", "Module", "Deep"}

(***************************************************************************)
(* C39: after every execute() call, whether it returns or raises and       *)
(* whatever the guest code raised, sys.stdout and sys.stderr are the       *)
(* streams that were installed before the call and line tracing is         *)
(* disabled.                                                               *)
(***************************************************************************)
C39_StreamsRestored ==
    (call.fn = "streams" /\ call.n > 0) =>
        /\ call.stdout = call.old_stdout
        /\ call.stderr = call.old_stderr
        /\ ~call.tracing

(***************************************************************************)
(* C32: every tool-server manager that a command (eryx, eryx serve, eryx   *)
(* wrap) has connected is closed before the command returns or propagates  *)
(* an exception, on every exit path, including a failure while building    *)
(* the session or the tool description after the manager was connected.    *)
(***************************************************************************)
C32_ManagerClosedOnExit ==
    (call.fn = "command" /\ call.phase = "exit"
        /\ DOMAIN mcp.servers # {}) =>
        /\ mcp.closed
        /\ \A n \in DOMAIN mcp.servers : mcp.servers[n].child = "joined"

(***************************************************************************)
(* C33: in eryx wrap a server name that is already connected is never      *)
(* connected again: across the three sources processed in order (inline    *)
(* command, --config files, discovery) manager.connect succeeds at most    *)
(* once per server name, and a name supplied by an earlier source is       *)
(* skipped by every later source.                                          *)
(***************************************************************************)
C33_ConnectedOncePerName ==
    call.fn = "wrap" =>
        /\ call.twice = {}
        /\ call.again = {}

\* the lines read so far that carry an id, in the order they were read
RECURSIVE RequestsRead(_, _)
RequestsRead(stdin, n) ==
    IF n = 0 THEN <<>>
    ELSE IF stdin[n].kind = "object" /\ stdin[n].id # ""
    THEN Append(RequestsRead(stdin, n - 1), stdin[n])
    ELSE RequestsRead(stdin, n - 1)

(***************************************************************************)
(* C34: the tool-server wire protocol as the test fixture serves it: every *)
(* request line carrying an id receives exactly one response line with the *)
(* same id (a result, or an error object with code and message, -32601 for *)
(* an unknown method); a notification (no id) receives no reply; blank or  *)
(* non-JSON lines are ignored without a reply and without stopping the     *)
(* server; responses are emitted in the order the requests were read.      *)
(***************************************************************************)
C34_WireProtocol ==
    call.fn = "mock_mcp_server" =>
        LET requests == RequestsRead(call.stdin, call.read)
        IN /\ Len(call.stdout) = Len(requests)
           /\ \A i \in 1..Len(requests) :
                 /\ call.stdout[i].id = requests[i].id
                 /\ call.stdout[i].member \in {"result", "error"}
                 /\ (requests[i].method \notin
                        {"initialize", "tools/list", "tools/call"})
                       <=> (call.stdout[i].member = "error"
                            /\ call.stdout[i].code = "-32601")
           /\ (call.raised # "" =>
                 call.stdin[call.read].kind \notin {"blank", "not_json"})

\* the text a call returns when it is built from its own output alone
OwnText ==
    IF srv.last.raises = ""
    THEN SuccessText(srv.last.emitted_out, srv.last.emitted_err)
    ELSE ErrorText(srv.last.emitted_out, srv.last.emitted_err,
                   srv.last.message)

====
